---- MODULE Spec2Model ----
(***************************************************************************)
(* State-machine model of the off-chain order book of oba-services         *)
(* (orderbook/src/orderbook.rs): the Vec<Order> behind a tokio RwLock, the *)
(* wall clock, and the async tasks that call add_order, remove_order,      *)
(* get_orders and run_maintenance.  Every await point of the source (the   *)
(* lock acquisitions) is a separate step of the calling task, and so are   *)
(* the steps a task takes while it holds the write guard.  The history     *)
(* variables committed, admitted, called and progress record what the      *)
(* properties at the end of the module speak about; the program's steps do *)
(* not read them (called only limits each task of the race to one call).   *)
(* The second half of the module models the Balancer pool registry         *)
(* (shared/src/balancer/event_handler.rs): the three maps of PoolRegistry, *)
(* the calls that fold batches of events into them, and the conversion of  *)
(* contract events.  The last part models the solver crate: the liquidity  *)
(* (solver/src/liquidity.rs), the HTTP solver (solver/src/http_solver.rs)  *)
(* and the simulation of settlements                                       *)
(* (solver/src/settlement_simulation.rs).                                  *)
(***************************************************************************)
EXTENDS Naturals, Integers, Sequences, FiniteSets, TLC

(***************************************************************************)
(* Bounds of the model.                                                    *)
(***************************************************************************)
NumTasks == 2
MaxValidTo == 2
MaxSig == 2
MaxClock == 2
MaxOrders == 2
MaxPool == 2
MaxToken == 2
MaxPoolTokens == 2
MaxBlock == 1
MaxSpecialization == 0
MaxBatch == 2
MaxCalls == 3
MaxRawSpecialization == 3
MaxStoreCalls == 2
AddressBytes == 1
MaxAmount == 2
MaxHandling == 1
MaxLiquidity == 2
MaxRoundTripHandling == 2
MaxTimeLimit == 2
MaxElapsed == 4
TimeLimitSlack == 1
MaxSettlements == 11
MaxBlockNumber == 2
MaxInsertEvents == 3

Tasks == 1..NumTasks

(* No task holds the write lock. *)
NoTask == 0

(* validate_signature returned None. *)
NoOwner == 0

(* The 32-byte domain separator the book was built with. *)
domain_separator == 7

(***************************************************************************)
(* OrderCreation: the user-signed payload.  valid_to is the u32 deadline,  *)
(* signature the recoverable signature bytes.  The tokens, amounts, kind   *)
(* and fee take no part in what the order book does beyond the equality of *)
(* two payloads, which valid_to and signature already tell apart.          *)
(***************************************************************************)
OrderCreation == [valid_to : 1..MaxValidTo, signature : 0..MaxSig]

(* Variant: a validity window that still admits valid_to = now. *)
has_future_valid_to_NonStrict(now_in_epoch_seconds, order) ==
    order.valid_to >= now_in_epoch_seconds

(* has_future_valid_to: strict comparison against the supplied clock; the  *)
(* u32 valid_to is widened to u64, which loses nothing.                    *)
has_future_valid_to(now_in_epoch_seconds, order) ==
    order.valid_to > now_in_epoch_seconds

(* struct_hash: the hash of the signed fields; the signature is not one. *)
struct_hash(order) == <<order.valid_to>>

(* validate_signature: recovers the signer, or NoOwner.  Signature 0 is    *)
(* unrecoverable; signatures 2k-1 and 2k are the two encodings of signer k.*)
validate_signature(order, ds) ==
    IF order.signature = 0 THEN NoOwner ELSE (order.signature + 1) \div 2

(* OrderUid = struct hash || owner || valid_to. *)
uid(order, owner) == <<struct_hash(order), owner, order.valid_to>>

NoUid == <<>>

VARIABLES
    orders,     \* OrderBook.orders: the Vec<Order> behind the RwLock
    clock,      \* SystemTime::now() in epoch seconds
    writer,     \* the task holding the RwLock's write guard, or NoTask
    readers,    \* the tasks holding a read guard
    pc,         \* pc[t]: where task t stands in its current call
    arg,        \* arg[t]: the OrderCreation passed to add_order / remove_order
    now,        \* now[t]: the clock value the call read
    ret,        \* ret[t]: what the last call of task t returned
    committed,  \* history: the book as the last write guard left it
    admitted,   \* history: the admitted payloads not removed since, oldest first
    called,     \* history: called[t], the payload of task t's single add_order call
    progress    \* history: 1 once OrderA's add succeeded, 2 once OrderB's did after it

(* The pool registry of src/shared/src/balancer/event_handler.rs, lines     *)
(* 101-108, with the record of the call made last and two histories.       *)
VARIABLES
    pools,           \* PoolRegistry.pools: pool id -> RegisteredPool
    pending_pools,   \* PoolRegistry.pending_pools: pool id -> WeightedPoolBuilder
    pools_by_token,  \* PoolRegistry.pools_by_token: token -> set of pool ids
    call,            \* the last call on the registry and what it returned
    calls,           \* the number of calls made on the registry
    tip,             \* history: the block of the latest event handed in
    origin,          \* history: the block of the event that opened each entry
    converted        \* a batch of contract events and what its conversion returned

pool_vars == <<pools, pending_pools, pools_by_token, call, calls, tip, origin>>

registry_vars == <<pool_vars, converted>>

orderbook_vars == <<orders, clock, writer, readers, pc, arg, now, ret, committed, admitted, called, progress>>

(* The solver crate and the functions checked on their own: a function of  *)
(* the program applied once to an input.                                   *)
VARIABLES
    applied,         \* <<>>, or <<the function, its argument, what it returned>>
    request,         \* HttpSolver::solve: the call of the solver in progress
    simulation       \* simulate_settlements: the call in progress

solver_vars == <<applied, request, simulation>>

vars == <<orderbook_vars, registry_vars, solver_vars>>

NotApplied == <<>>

Application(fn, input, result) == <<[fn |-> fn, arg |-> input, result |-> result]>>

(* No call of the solver yet: nothing sent, nothing received, no result.   *)
NoRequest ==
    [pc |-> "idle", time_limit |-> 0, elapsed |-> 0, requests |-> 0,
     status |-> <<>>, text |-> <<>>, sent |-> <<>>, solved |-> <<>>]

(* No simulation yet. *)
NoSimulation ==
    [pc |-> "idle", settlements |-> <<>>, network_id |-> "", executed |-> 0,
     calls |-> <<>>, futures |-> <<>>, current_block |-> <<>>, returned |-> <<>>]

(* A HashMap without entries. *)
EmptyMap == [k \in {} |-> 0]

(* Before any call on the registry. *)
NoCall ==
    [op |-> "new", from |-> 0, ids |-> {}, ok |-> TRUE, malformed |-> FALSE]

(* Before any batch of contract events was converted. *)
NotConverted == <<>>

NoArg == [valid_to |-> 0, signature |-> 0]

Result(kind, u, snap) == [kind |-> kind, uid |-> u, snap |-> snap]

Pending == Result("pending", NoUid, <<>>)

Creations(os) == {os[i].order_creation : i \in 1..Len(os)}

Count(os, o) == Cardinality({i \in 1..Len(os) : os[i].order_creation = o})

AddPcs == {"add_valid_to", "add_lock", "add_dup", "add_push"}

InFlightAdds == {arg[t] : t \in {s \in Tasks : pc[s] \in AddPcs}}

(***************************************************************************)
(* tokio::sync::RwLock: one writer or any number of readers.               *)
(***************************************************************************)
(* Variant: a write guard handed out while another writer holds one. *)
CanWrite_ReadersOnly == readers = {}

CanWrite == writer = NoTask /\ readers = {}

(* Variant: a read guard handed out while a writer holds the lock. *)
CanRead_Always == TRUE

CanRead == writer = NoTask

Init ==
    /\ orders = <<>>
    /\ clock = 0
    /\ writer = NoTask
    /\ readers = {}
    /\ pc = [t \in Tasks |-> "idle"]
    /\ arg = [t \in Tasks |-> NoArg]
    /\ now = [t \in Tasks |-> 0]
    /\ ret = [t \in Tasks |-> Result("none", NoUid, <<>>)]
    /\ committed = <<>>
    /\ admitted = <<>>
    /\ called = [t \in Tasks |-> NoArg]
    /\ progress = 0
    /\ pools = EmptyMap
    /\ pending_pools = EmptyMap
    /\ pools_by_token = EmptyMap
    /\ call = NoCall
    /\ calls = 0
    /\ tip = 0
    /\ origin = [pending |-> EmptyMap, pools |-> EmptyMap]
    /\ converted = NotConverted
    /\ applied = NotApplied
    /\ request = NoRequest
    /\ simulation = NoSimulation

(* The wall clock advances. *)
Tick ==
    /\ clock < MaxClock
    /\ clock' = clock + 1
    /\ UNCHANGED <<orders, writer, readers, pc, arg, now, ret, committed, admitted>>
    /\ called' = called
    /\ progress' = progress
    /\ UNCHANGED <<registry_vars, solver_vars>>

(***************************************************************************)
(* add_order                                                               *)
(***************************************************************************)
(* Line 40: a task calls add_order(order). *)
AddCall(t, order) ==
    /\ pc[t] = "idle"
    /\ Cardinality(Creations(orders) \cup InFlightAdds \cup {order}) <= MaxOrders
    /\ pc' = [pc EXCEPT ![t] = "add_valid_to"]
    /\ arg' = [arg EXCEPT ![t] = order]
    /\ ret' = [ret EXCEPT ![t] = Pending]
    /\ UNCHANGED <<orders, clock, writer, readers, now, committed, admitted>>

AddBegin(t, order) ==
    /\ AddCall(t, order)
    /\ called' = called
    /\ progress' = progress
    /\ UNCHANGED <<registry_vars, solver_vars>>

(* The same call by a task that makes no other call. *)
AddOnce(t, order) ==
    /\ called[t] = NoArg
    /\ AddCall(t, order)
    /\ called' = [called EXCEPT ![t] = order]
    /\ progress' = progress
    /\ UNCHANGED <<registry_vars, solver_vars>>

(* Lines 41-43: read the clock and check the validity window, lock-free. *)
AddCheckValidTo(t) ==
    /\ pc[t] = "add_valid_to"
    /\ IF ~has_future_valid_to(clock, arg[t])
         THEN /\ pc' = [pc EXCEPT ![t] = "idle"]
              /\ ret' = [ret EXCEPT ![t] = Result("PastValidTo", NoUid, <<>>)]
              /\ arg' = [arg EXCEPT ![t] = NoArg]
              /\ now' = now
         ELSE /\ pc' = [pc EXCEPT ![t] = "add_lock"]
              /\ now' = [now EXCEPT ![t] = clock]
              /\ UNCHANGED <<ret, arg>>
    /\ UNCHANGED <<orders, clock, writer, readers, committed, admitted>>
    /\ called' = called
    /\ progress' = progress
    /\ UNCHANGED <<registry_vars, solver_vars>>

(* Line 44: self.orders.write().await *)
AddLock(t) ==
    /\ pc[t] = "add_lock"
    /\ CanWrite
    /\ writer' = t
    /\ pc' = [pc EXCEPT ![t] = "add_dup"]
    /\ UNCHANGED <<orders, clock, readers, arg, now, ret, committed, admitted>>
    /\ called' = called
    /\ progress' = progress
    /\ UNCHANGED <<registry_vars, solver_vars>>

(* Variant: a duplicate check that looks at the newest stored order only. *)
IsDuplicate_LastOnly(os, order) ==
    Len(os) > 0 /\ os[Len(os)].order_creation = order

(* Lines 45-47: the duplicate check, under the write guard. *)
IsDuplicate(os, order) == \E i \in 1..Len(os) : os[i].order_creation = order

(* Variant: a duplicate check that takes the stored duplicate out. *)
AddCheckDup_Evicting(t) ==
    /\ pc[t] = "add_dup"
    /\ IF IsDuplicate(orders, arg[t])
         THEN /\ pc' = [pc EXCEPT ![t] = "idle"]
              /\ ret' = [ret EXCEPT ![t] = Result("DuplicatedOrder", NoUid, <<>>)]
              /\ arg' = [arg EXCEPT ![t] = NoArg]
              /\ now' = [now EXCEPT ![t] = 0]
              /\ writer' = IF writer = t THEN NoTask ELSE writer
              /\ orders' = SelectSeq(orders, LAMBDA x : x.order_creation # arg[t])
              /\ committed' = orders'
         ELSE /\ pc' = [pc EXCEPT ![t] = "add_push"]
              /\ UNCHANGED <<ret, arg, now, writer, committed, orders>>
    /\ UNCHANGED <<clock, readers, admitted>>
    /\ called' = called
    /\ progress' = progress
    /\ UNCHANGED <<registry_vars, solver_vars>>

AddCheckDup(t) ==
    /\ pc[t] = "add_dup"
    /\ IF IsDuplicate(orders, arg[t])
         THEN /\ pc' = [pc EXCEPT ![t] = "idle"]
              /\ ret' = [ret EXCEPT ![t] = Result("DuplicatedOrder", NoUid, <<>>)]
              /\ arg' = [arg EXCEPT ![t] = NoArg]
              /\ now' = [now EXCEPT ![t] = 0]
              /\ writer' = IF writer = t THEN NoTask ELSE writer
              /\ committed' = orders
         ELSE /\ pc' = [pc EXCEPT ![t] = "add_push"]
              /\ UNCHANGED <<ret, arg, now, writer, committed>>
    /\ UNCHANGED <<orders, clock, readers, admitted>>
    /\ called' = called
    /\ progress' = progress
    /\ UNCHANGED <<registry_vars, solver_vars>>

(* Variant: the owner taken from the signature bytes, unrecovered. *)
order_creation_to_order_SignatureAsOwner(user_order) ==
    [order_creation |-> user_order,
     owner |-> user_order.signature,
     uid |-> uid(user_order, user_order.signature)]

(* order_creation_to_order, lines 81-94: the Order built from a payload   *)
(* whose signer was recovered.                                             *)
order_creation_to_order(user_order) ==
    LET owner == validate_signature(user_order, domain_separator)
    IN  [order_creation |-> user_order,
         owner |-> owner,
         uid |-> uid(user_order, owner)]

(* History: an admission and the clock value its validity check read. *)
Admission(order, observed) == [creation |-> order, observed |-> observed]

(* Line 51: Vec::push appends. *)
(* Variant: the Vec replaced by the new order instead of extended. *)
push_Overwrite(os, order) == <<order>>

push(os, order) == Append(os, order)

(* Lines 48-52: convert, push, return the uid; the guard drops on return. *)
AddPushStep(t) ==
    /\ pc[t] = "add_push"
    /\ LET order == order_creation_to_order(arg[t])
       IN  IF order.owner = NoOwner
             THEN /\ ret' = [ret EXCEPT ![t] = Result("InvalidSignature", NoUid, <<>>)]
                  /\ orders' = orders
                  /\ admitted' = admitted
             ELSE /\ ret' = [ret EXCEPT ![t] = Result("Ok", order.uid, <<>>)]
                  /\ orders' = push(orders, order)
                  /\ admitted' = Append(admitted, Admission(arg[t], now[t]))
    /\ pc' = [pc EXCEPT ![t] = "idle"]
    /\ arg' = [arg EXCEPT ![t] = NoArg]
    /\ now' = [now EXCEPT ![t] = 0]
    /\ writer' = IF writer = t THEN NoTask ELSE writer
    /\ committed' = orders'
    /\ UNCHANGED <<clock, readers>>
    /\ called' = called

AddPush(t) ==
    /\ AddPushStep(t)
    /\ progress' = progress
    /\ UNCHANGED <<registry_vars, solver_vars>>

(* Two payloads whose successful adds, OrderA's and then OrderB's, the     *)
(* history variable progress follows.                                      *)
OrderA == [valid_to |-> 1, signature |-> 1]

OrderB == [valid_to |-> MaxValidTo, signature |-> 1]

AddPushLogged(t) ==
    /\ AddPushStep(t)
    /\ progress' =
          IF ret'[t].kind # "Ok" THEN progress
          ELSE IF progress = 0 /\ arg[t] = OrderA THEN 1
          ELSE IF progress = 1 /\ arg[t] = OrderB THEN 2
          ELSE progress
    /\ UNCHANGED <<registry_vars, solver_vars>>

(***************************************************************************)
(* get_orders, lines 55-57                                                 *)
(***************************************************************************)
(* self.orders.read().await *)
GetLock(t) ==
    /\ pc[t] = "idle"
    /\ CanRead
    /\ readers' = readers \cup {t}
    /\ pc' = [pc EXCEPT ![t] = "get_clone"]
    /\ ret' = [ret EXCEPT ![t] = Pending]
    /\ UNCHANGED <<orders, clock, writer, arg, now, committed, admitted>>
    /\ called' = called
    /\ progress' = progress
    /\ UNCHANGED <<registry_vars, solver_vars>>

(* .clone(): the returned Vec is a copy of the guarded one. *)
GetClone(t) ==
    /\ pc[t] = "get_clone"
    /\ ret' = [ret EXCEPT ![t] = Result("Orders", NoUid, orders)]
    /\ readers' = readers \ {t}
    /\ pc' = [pc EXCEPT ![t] = "idle"]
    /\ UNCHANGED <<orders, clock, writer, arg, now, committed, admitted>>
    /\ called' = called
    /\ progress' = progress
    /\ UNCHANGED <<registry_vars, solver_vars>>

(***************************************************************************)
(* remove_order, lines 60-68                                               *)
(***************************************************************************)
(* Line 61: self.orders.write().await *)
RemoveLock(t, order) ==
    /\ pc[t] = "idle"
    /\ CanWrite
    /\ writer' = t
    /\ arg' = [arg EXCEPT ![t] = order]
    /\ pc' = [pc EXCEPT ![t] = "remove_find"]
    /\ ret' = [ret EXCEPT ![t] = Pending]
    /\ UNCHANGED <<orders, clock, readers, now, committed, admitted>>
    /\ called' = called
    /\ progress' = progress
    /\ UNCHANGED <<registry_vars, solver_vars>>

(* Variants: a search that ignores the payload, and one that reports the   *)
(* last slot of the Vec instead of the slot of the match.                  *)
position_First(os, order) == IF Len(os) > 0 THEN 1 ELSE 0

position_Last(os, order) ==
    IF \E i \in 1..Len(os) : os[i].order_creation = order THEN Len(os) ELSE 0

(* Line 62: iter().position(): the first index holding the payload, or 0. *)
position(os, order) ==
    IF \E i \in 1..Len(os) : os[i].order_creation = order
      THEN CHOOSE i \in 1..Len(os) :
             /\ os[i].order_creation = order
             /\ \A j \in 1..(i - 1) : os[j].order_creation # order
      ELSE 0

(* Lines 62-63: on a hit Vec::swap_remove first copies the last element   *)
(* over the hole; on a miss the call returns DoesNotExist.                 *)
RemoveFind(t) ==
    /\ pc[t] = "remove_find"
    /\ LET i == position(orders, arg[t])
       IN  IF i = 0
             THEN /\ pc' = [pc EXCEPT ![t] = "idle"]
                  /\ ret' = [ret EXCEPT ![t] = Result("DoesNotExist", NoUid, <<>>)]
                  /\ arg' = [arg EXCEPT ![t] = NoArg]
                  /\ writer' = IF writer = t THEN NoTask ELSE writer
                  /\ orders' = orders
                  /\ committed' = orders
             ELSE /\ pc' = [pc EXCEPT ![t] = "remove_truncate"]
                  /\ orders' = [orders EXCEPT ![i] = orders[Len(orders)]]
                  /\ UNCHANGED <<ret, arg, writer, committed>>
    /\ UNCHANGED <<clock, readers, now, admitted>>
    /\ called' = called
    /\ progress' = progress
    /\ UNCHANGED <<registry_vars, solver_vars>>

(* Line 63-64: swap_remove then shortens the Vec by one; Ok(()). *)
RemoveTruncate(t) ==
    /\ pc[t] = "remove_truncate"
    /\ orders' = SubSeq(orders, 1, Len(orders) - 1)
    /\ pc' = [pc EXCEPT ![t] = "idle"]
    /\ ret' = [ret EXCEPT ![t] = Result("Removed", NoUid, <<>>)]
    /\ arg' = [arg EXCEPT ![t] = NoArg]
    /\ writer' = IF writer = t THEN NoTask ELSE writer
    /\ committed' = orders'
    /\ admitted' = SelectSeq(admitted, LAMBDA a : a.creation # arg[t])
    /\ UNCHANGED <<clock, readers, now>>
    /\ called' = called
    /\ progress' = progress
    /\ UNCHANGED <<registry_vars, solver_vars>>

(***************************************************************************)
(* run_maintenance / remove_expired_orders, lines 71-79                    *)
(***************************************************************************)
(* Line 72: the clock is read before the lock is awaited. *)
SweepBegin(t) ==
    /\ pc[t] = "idle"
    /\ now' = [now EXCEPT ![t] = clock]
    /\ pc' = [pc EXCEPT ![t] = "sweep_lock"]
    /\ ret' = [ret EXCEPT ![t] = Pending]
    /\ UNCHANGED <<orders, clock, writer, readers, arg, committed, admitted>>
    /\ called' = called
    /\ progress' = progress
    /\ UNCHANGED <<registry_vars, solver_vars>>

(* Line 77: self.orders.write().await *)
SweepLock(t) ==
    /\ pc[t] = "sweep_lock"
    /\ CanWrite
    /\ writer' = t
    /\ pc' = [pc EXCEPT ![t] = "sweep_retain"]
    /\ UNCHANGED <<orders, clock, readers, arg, now, ret, committed, admitted>>
    /\ called' = called
    /\ progress' = progress
    /\ UNCHANGED <<registry_vars, solver_vars>>

(* Variants: a sweep that keeps valid_to = now, and one that already drops *)
(* the orders expiring in the next second.                                 *)
retain_future_NonStrict(os, now_in_epoch_seconds) ==
    SelectSeq(os, LAMBDA x : x.order_creation.valid_to >= now_in_epoch_seconds)

retain_future_Early(os, now_in_epoch_seconds) ==
    SelectSeq(os, LAMBDA x : x.order_creation.valid_to > now_in_epoch_seconds + 1)

(* Line 78: Vec::retain keeps, in order, the orders still in the future. *)
retain_future(os, now_in_epoch_seconds) ==
    SelectSeq(os, LAMBDA x : has_future_valid_to(now_in_epoch_seconds, x.order_creation))

SweepRetain(t) ==
    /\ pc[t] = "sweep_retain"
    /\ orders' = retain_future(orders, now[t])
    /\ pc' = [pc EXCEPT ![t] = "idle"]
    /\ ret' = [ret EXCEPT ![t] = Result("Swept", NoUid, <<>>)]
    /\ now' = [now EXCEPT ![t] = 0]
    /\ writer' = IF writer = t THEN NoTask ELSE writer
    /\ committed' = orders'
    /\ admitted' = SelectSeq(admitted, LAMBDA a : a.creation.valid_to > now[t])
    /\ UNCHANGED <<clock, readers, arg>>
    /\ called' = called
    /\ progress' = progress
    /\ UNCHANGED <<registry_vars, solver_vars>>

Next ==
    \/ Tick
    \/ \E t \in Tasks, order \in OrderCreation : AddBegin(t, order)
    \/ \E t \in Tasks : AddCheckValidTo(t)
    \/ \E t \in Tasks : AddLock(t)
    \/ \E t \in Tasks : AddCheckDup(t)
    \/ \E t \in Tasks : AddPush(t)
    \/ \E t \in Tasks : GetLock(t)
    \/ \E t \in Tasks : GetClone(t)
    \/ \E t \in Tasks, order \in OrderCreation : RemoveLock(t, order)
    \/ \E t \in Tasks : RemoveFind(t)
    \/ \E t \in Tasks : RemoveTruncate(t)
    \/ \E t \in Tasks : SweepBegin(t)
    \/ \E t \in Tasks : SweepLock(t)
    \/ \E t \in Tasks : SweepRetain(t)

Spec == Init /\ [][Next]_vars

(***************************************************************************)
(* Cancellation.  A call is a future, and dropping it stops it at the      *)
(* await it is suspended at: lines 44, 56, 61 and 77, each the wait for    *)
(* the lock (tokio::sync::RwLock, line 4).  What runs between two awaits   *)
(* runs to the end.  A dropped add_order or run_maintenance is at add_lock *)
(* or sweep_lock; a dropped remove_order or get_orders has not left its    *)
(* first line, so the task is still idle and holds nothing.               *)
(***************************************************************************)
Suspended == {"idle", "add_lock", "sweep_lock"}

(* Variant: a task that can be stopped anywhere, its guard dropped with it. *)
Cancel_Preemptive(t) ==
    /\ pc' = [pc EXCEPT ![t] = "idle"]
    /\ ret' = [ret EXCEPT ![t] = Result("Cancelled", NoUid, <<>>)]
    /\ arg' = [arg EXCEPT ![t] = NoArg]
    /\ now' = [now EXCEPT ![t] = 0]
    /\ writer' = IF writer = t THEN NoTask ELSE writer
    /\ readers' = readers \ {t}
    /\ UNCHANGED <<orders, clock, committed, admitted>>
    /\ called' = called
    /\ progress' = progress
    /\ UNCHANGED <<registry_vars, solver_vars>>

Cancel(t) ==
    /\ pc[t] \in Suspended
    /\ pc' = [pc EXCEPT ![t] = "idle"]
    /\ ret' = [ret EXCEPT ![t] = Result("Cancelled", NoUid, <<>>)]
    /\ arg' = [arg EXCEPT ![t] = NoArg]
    /\ now' = [now EXCEPT ![t] = 0]
    /\ UNCHANGED <<orders, clock, writer, readers, committed, admitted>>
    /\ called' = called
    /\ progress' = progress
    /\ UNCHANGED <<registry_vars, solver_vars>>

NextCancel ==
    \/ Next
    \/ \E t \in Tasks : Cancel(t)

SpecCancel == Init /\ [][NextCancel]_vars

(***************************************************************************)
(* The race of add_order calls: every task calls add_order once, with any *)
(* payload, while the clock runs.                                          *)
(***************************************************************************)
NextRace ==
    \/ Tick
    \/ \E t \in Tasks, order \in OrderCreation : AddOnce(t, order)
    \/ \E t \in Tasks : AddCheckValidTo(t)
    \/ \E t \in Tasks : AddLock(t)
    \/ \E t \in Tasks : AddCheckDup(t)
    \/ \E t \in Tasks : AddPush(t)

SpecRace == Init /\ [][NextRace]_vars

(***************************************************************************)
(* The order book with the order of successful adds recorded.              *)
(***************************************************************************)
NextOrdered ==
    \/ Tick
    \/ \E t \in Tasks, order \in OrderCreation : AddBegin(t, order)
    \/ \E t \in Tasks : AddCheckValidTo(t)
    \/ \E t \in Tasks : AddLock(t)
    \/ \E t \in Tasks : AddCheckDup(t)
    \/ \E t \in Tasks : AddPushLogged(t)
    \/ \E t \in Tasks : GetLock(t)
    \/ \E t \in Tasks : GetClone(t)
    \/ \E t \in Tasks, order \in OrderCreation : RemoveLock(t, order)
    \/ \E t \in Tasks : RemoveFind(t)
    \/ \E t \in Tasks : RemoveTruncate(t)
    \/ \E t \in Tasks : SweepBegin(t)
    \/ \E t \in Tasks : SweepLock(t)
    \/ \E t \in Tasks : SweepRetain(t)

SpecOrdered == Init /\ [][NextOrdered]_vars

(***************************************************************************)
(* The Balancer pool registry, shared/src/balancer/event_handler.rs.       *)
(* The registry sits behind a Mutex (line 297), so each call on it is one  *)
(* step.  A pool id, a token and a block are small numbers; a token list   *)
(* is the set of its tokens, since the registry only walks the list and    *)
(* looks tokens up; the pool address travels with the specialization and   *)
(* is left out; of an EventIndex the registry reads block_number only.     *)
(* An Option is <<>> for None and <<x>> for Some(x).                       *)
(***************************************************************************)
PoolIds == 1..MaxPool

Tokens == 1..MaxToken

Blocks == 0..MaxBlock

(* PoolSpecialization, lines 112-127, by discriminant; the events of the   *)
(* model carry those up to MaxSpecialization.                              *)
Specializations == 0..MaxSpecialization

TokenLists == {ts \in SUBSET Tokens : Cardinality(ts) \in 1..MaxPoolTokens}

(* (EventIndex, BalancerEvent::PoolRegistered), lines 30 and 35-39. *)
PoolRegisteredEvents ==
    [kind : {"PoolRegistered"}, block_number : Blocks, pool_id : PoolIds,
     specialization : Specializations]

(* (EventIndex, BalancerEvent::TokensRegistered), lines 31 and 42-45. *)
TokensRegisteredEvents ==
    [kind : {"TokensRegistered"}, block_number : Blocks, pool_id : PoolIds,
     tokens : TokenLists]

BalancerEvents == PoolRegisteredEvents \cup TokensRegisteredEvents

(* Vec<(EventIndex, BalancerEvent)>: the events of a batch come in the     *)
(* order of their blocks.                                                  *)
InBlockOrder(events) ==
    \A i \in 1..Len(events), j \in 1..Len(events) :
        i < j => events[i].block_number <= events[j].block_number

EventBatches ==
    {events \in UNION {[1..n -> BalancerEvents] : n \in 0..MaxBatch} :
        InBlockOrder(events)}

Max(S) == CHOOSE x \in S : \A y \in S : y <= x

Min(S) == CHOOSE x \in S : \A y \in S : x <= y

BlocksOf(events) == {events[i].block_number : i \in 1..Len(events)}

PoolIdsOf(events) == {events[i].pool_id : i \in 1..Len(events)}

(* HashMap operations. *)
MapPut(m, k, v) == [x \in DOMAIN m \cup {k} |-> IF x = k THEN v ELSE m[x]]

MapRemove(m, k) == [x \in DOMAIN m \ {k} |-> m[x]]

MapGet(m, k, default) == IF k \in DOMAIN m THEN m[k] ELSE default

(* The three fields of a PoolRegistry as one value. *)
Registry(ps, pending, by_token) ==
    [pools |-> ps, pending_pools |-> pending, pools_by_token |-> by_token]

Self == Registry(pools, pending_pools, pools_by_token)

(* WeightedPoolBuilder, lines 69-76, as insert_pool and insert_token_data  *)
(* create it.                                                              *)
NewBuilder(block_number) ==
    [pool_registration |-> <<>>, tokens_registration |-> <<>>,
     block_created |-> block_number]

IsComplete(pool_builder) ==
    /\ pool_builder.pool_registration # <<>>
    /\ pool_builder.tokens_registration # <<>>

(* WeightedPoolBuilder::into_pool, lines 79-97: Ok(RegisteredPool) when    *)
(* both registrations are there, <<>> for the Err otherwise.               *)
into_pool(pool_builder) ==
    IF IsComplete(pool_builder)
    THEN <<[pool_id |-> pool_builder.pool_registration[1].pool_id,
            specialization |-> pool_builder.pool_registration[1].specialization,
            tokens |-> pool_builder.tokens_registration[1].tokens,
            block_created |-> pool_builder.block_created]>>
    ELSE <<>>

(* entry(pool_id).or_insert(WeightedPoolBuilder {..}), lines 195-201 and   *)
(* 208-214.                                                                *)
or_insert_Fresh(pending, pool_id, block_number) == NewBuilder(block_number)

or_insert(pending, pool_id, block_number) ==
    IF pool_id \in DOMAIN pending THEN pending[pool_id]
    ELSE NewBuilder(block_number)

(* PoolRegistry::insert_pool, lines 193-204. *)
insert_pool(self, event) ==
    LET pool_builder ==
            or_insert(self.pending_pools, event.pool_id, event.block_number)
        registration ==
            [pool_id |-> event.pool_id, specialization |-> event.specialization]
    IN  [self EXCEPT !.pending_pools =
            MapPut(@, event.pool_id,
                   [pool_builder EXCEPT !.pool_registration = <<registration>>])]

(* PoolRegistry::insert_token_data, lines 206-217. *)
insert_token_data_Restamp(self, event) ==
    LET pool_builder ==
            or_insert(self.pending_pools, event.pool_id, event.block_number)
        registration == [pool_id |-> event.pool_id, tokens |-> event.tokens]
    IN  [self EXCEPT !.pending_pools =
            MapPut(@, event.pool_id,
                   [pool_builder EXCEPT !.tokens_registration = <<registration>>,
                                        !.block_created = event.block_number])]

insert_token_data(self, event) ==
    LET pool_builder ==
            or_insert(self.pending_pools, event.pool_id, event.block_number)
        registration == [pool_id |-> event.pool_id, tokens |-> event.tokens]
    IN  [self EXCEPT !.pending_pools =
            MapPut(@, event.pool_id,
                   [pool_builder EXCEPT !.tokens_registration = <<registration>>])]

(* The loop of insert_events, lines 182-187. *)
RECURSIVE insert_each(_, _)
insert_each(self, events) ==
    IF events = <<>> THEN self
    ELSE insert_each(
            IF Head(events).kind = "PoolRegistered"
            THEN insert_pool(self, Head(events))
            ELSE insert_token_data(self, Head(events)),
            Tail(events))

(* One turn of the loop of try_upgrade for a builder that into_pool        *)
(* accepts, lines 167-176.                                                 *)
index_tokens_FirstOnly(by_token, pool) ==
    LET token == Min(pool.tokens)
    IN  MapPut(by_token, token, MapGet(by_token, token, {}) \cup {pool.pool_id})

index_tokens(by_token, pool) ==
    [token \in DOMAIN by_token \cup pool.tokens |->
        IF token \in pool.tokens
        THEN MapGet(by_token, token, {}) \cup {pool.pool_id}
        ELSE by_token[token]]

upgrade(self, pool_id) ==
    LET weighted_pool == into_pool(self.pending_pools[pool_id])[1]
    IN  Registry(MapPut(self.pools, pool_id, weighted_pool),
                 MapRemove(self.pending_pools, pool_id),
                 index_tokens(self.pools_by_token, weighted_pool))

RECURSIVE upgrade_all(_, _)
upgrade_all(self, pool_ids) ==
    IF pool_ids = {} THEN self
    ELSE LET pool_id == Min(pool_ids)
         IN  upgrade_all(upgrade(self, pool_id), pool_ids \ {pool_id})

(* PoolRegistry::try_upgrade, lines 164-179.  The loop walks a clone of    *)
(* pending_pools in the order of the HashMap, which is any order, and      *)
(* into_pool()? leaves the function at the first builder that lacks a      *)
(* registration: the builders upgraded by then are any of the complete     *)
(* ones.  Without such a builder all are upgraded.  Turns for different    *)
(* pool ids commute.                                                       *)
try_upgrade(self) ==
    LET complete ==
            {id \in DOMAIN self.pending_pools : IsComplete(self.pending_pools[id])}
    IN  IF complete = DOMAIN self.pending_pools
        THEN {[self |-> upgrade_all(self, complete), ok |-> TRUE]}
        ELSE {[self |-> upgrade_all(self, done), ok |-> FALSE] :
                done \in SUBSET complete}

(* PoolRegistry::insert_events, lines 181-191. *)
insert_events(self, events) == try_upgrade(insert_each(self, events))

(* PoolRegistry::delete_pools, lines 229-243. *)
retain_before_Inclusive(m, delete_from_block_number) ==
    [id \in {x \in DOMAIN m : m[x].block_created <= delete_from_block_number}
        |-> m[id]]

retain_before_Earlier(m, delete_from_block_number) ==
    [id \in {x \in DOMAIN m : m[x].block_created + 1 < delete_from_block_number}
        |-> m[id]]

retain_before(m, delete_from_block_number) ==
    [id \in {x \in DOMAIN m : m[x].block_created < delete_from_block_number}
        |-> m[id]]

retained_pool_ids(ps, pending) == DOMAIN ps

delete_pools(self, delete_from_block_number) ==
    LET ps == retain_before(self.pools, delete_from_block_number)
        pending == retain_before(self.pending_pools, delete_from_block_number)
    IN  Registry(ps, pending,
                 [token \in DOMAIN self.pools_by_token |->
                     self.pools_by_token[token] \cap retained_pool_ids(ps, pending)])

(* PoolRegistry::replace_events, lines 219-227. *)
replace_events(self, delete_from_block_number, events) ==
    insert_events(delete_pools(self, delete_from_block_number), events)

(* PoolRegistry::last_event_block, lines 245-261. *)
last_event_block_Min(self) ==
    LET pending_max ==
            Max({self.pending_pools[id].block_created :
                    id \in DOMAIN self.pending_pools} \cup {0})
        pool_max ==
            Max({self.pools[id].block_created : id \in DOMAIN self.pools} \cup {0})
    IN  Min({pending_max, pool_max})

last_event_block_PoolsOnly(self) ==
    Max({self.pools[id].block_created : id \in DOMAIN self.pools} \cup {0})

last_event_block(self) ==
    LET pending_max ==
            Max({self.pending_pools[id].block_created :
                    id \in DOMAIN self.pending_pools} \cup {0})
        pool_max ==
            Max({self.pools[id].block_created : id \in DOMAIN self.pools} \cup {0})
    IN  Max({pending_max, pool_max})

(* TokenPair::new and TokenPair::get of the model crate: a pair of two     *)
(* distinct tokens, held smaller first.                                    *)
TokenPair(token_a, token_b) ==
    IF token_a < token_b THEN <<token_a, token_b>> ELSE <<token_b, token_a>>

(* PoolRegistry::pools_containing_pair, lines 142-162: <<the set>> it      *)
(* returns, or <<>> when the expect of line 158 panics on an id that pools *)
(* lacks.                                                                  *)
pools_containing_pair(self, token_pair) ==
    LET pools_0 == MapGet(self.pools_by_token, token_pair[1], {})
        pools_1 == MapGet(self.pools_by_token, token_pair[2], {})
    IN  IF (pools_0 \cap pools_1) \subseteq DOMAIN self.pools
        THEN <<{self.pools[pool_id] : pool_id \in pools_0 \cap pools_1}>>
        ELSE <<>>

(***************************************************************************)
(* The calls on the registry.  What the histories record: tip, the block   *)
(* of the latest event the registry still stands on, and origin, for each  *)
(* entry of pending_pools and of pools the block of the event that opened  *)
(* its builder.                                                            *)
(***************************************************************************)
RECURSIVE opened_by(_, _)
opened_by(opened, events) ==
    IF events = <<>> THEN opened
    ELSE opened_by(
            IF Head(events).pool_id \in DOMAIN opened THEN opened
            ELSE MapPut(opened, Head(events).pool_id, Head(events).block_number),
            Tail(events))

OriginAfter(before, events, pending_after) ==
    LET opened == opened_by(before.pending, events)
        upgraded == DOMAIN opened \ DOMAIN pending_after
    IN  [pending |-> [id \in DOMAIN opened \ upgraded |-> opened[id]],
         pools |-> [id \in DOMAIN before.pools \cup upgraded |->
                        IF id \in upgraded THEN opened[id] ELSE before.pools[id]]]

OriginBefore(before, delete_from_block_number) ==
    [pending |-> [id \in {x \in DOMAIN before.pending :
                            before.pending[x] < delete_from_block_number}
                    |-> before.pending[id]],
     pools |-> [id \in {x \in DOMAIN before.pools :
                            before.pools[x] < delete_from_block_number}
                    |-> before.pools[id]]]

Returned(op, from, events, ok) ==
    [op |-> op, from |-> from, ids |-> PoolIdsOf(events), ok |-> ok,
     malformed |-> FALSE]

(* EventStoring::append_events, lines 341-346, on events that all          *)
(* converted: insert_events.  The events come with blocks that do not fall *)
(* behind the ones handed in before.                                       *)
AppendEvents(events) ==
    /\ calls < MaxCalls
    /\ calls' = calls + 1
    /\ \A b \in BlocksOf(events) : b >= tip
    /\ \E out \in insert_events(Self, events) :
        /\ pools' = out.self.pools
        /\ pending_pools' = out.self.pending_pools
        /\ pools_by_token' = out.self.pools_by_token
        /\ call' = Returned("append_events", 0, events, out.ok)
        /\ origin' = OriginAfter(origin, events, out.self.pending_pools)
    /\ tip' = Max(BlocksOf(events) \cup {tip})
    /\ converted' = converted
    /\ UNCHANGED <<orderbook_vars, solver_vars>>

(* PoolRegistry::replace_events, lines 219-227; the EventStoring one,      *)
(* lines 324-339, calls it with 0.  The events are those of the blocks     *)
(* from delete_from_block_number on.                                       *)
ReplaceEvents(delete_from_block_number, events) ==
    /\ calls < MaxCalls
    /\ calls' = calls + 1
    /\ \A b \in BlocksOf(events) : b >= delete_from_block_number
    /\ \E out \in replace_events(Self, delete_from_block_number, events) :
        /\ pools' = out.self.pools
        /\ pending_pools' = out.self.pending_pools
        /\ pools_by_token' = out.self.pools_by_token
        /\ call' = Returned("replace_events", delete_from_block_number, events,
                            out.ok)
        /\ origin' = OriginAfter(OriginBefore(origin, delete_from_block_number),
                                 events, out.self.pending_pools)
    /\ tip' = IF events # <<>> THEN Max(BlocksOf(events))
              ELSE Min({tip, Max({delete_from_block_number, 1}) - 1})
    /\ converted' = converted
    /\ UNCHANGED <<orderbook_vars, solver_vars>>

NextRegistry ==
    \/ \E events \in EventBatches : AppendEvents(events)
    \/ \E delete_from_block_number \in 0..MaxBlock, events \in EventBatches :
            ReplaceEvents(delete_from_block_number, events)

SpecRegistry == Init /\ [][NextRegistry]_vars

(***************************************************************************)
(* The conversion of contract events, lines 263-294 and 364-388.  An       *)
(* EthContractEvent is its data with meta: Option<EventMetadata>, of which *)
(* EventIndex::from keeps the block.  A Result is a record with ok, and    *)
(* the events or the error.                                                *)
(***************************************************************************)
MetaOptions == {<<>>} \cup {<<b>> : b \in Blocks}

ContractEvents ==
    [kind : {"PoolRegistered"}, meta : MetaOptions, pool_id : PoolIds,
     specialization : 0..MaxRawSpecialization]
    \cup [kind : {"TokensRegistered", "TokensDeregistered"}, meta : MetaOptions,
          pool_id : PoolIds, tokens : TokenLists]
    \cup [kind : {"Other"}, meta : MetaOptions]

ContractBatches == UNION {[1..n -> ContractEvents] : n \in 0..MaxBatch}

Ok(events) == [ok |-> TRUE, events |-> events]

Err(error) == [ok |-> FALSE, error |-> error]

(* enum PoolSpecialization, lines 114-127, #[repr(u8)]. *)
General == 0

MinimalSwapInfo == 1

TwoToken == 2

(* PoolSpecialization::new, lines 130-137: <<the specialization>>, or <<>>  *)
(* for the Err.                                                            *)
PoolSpecialization_new_Saturating(specialization) ==
    CASE specialization = 0 -> <<General>>
      [] specialization = 1 -> <<MinimalSwapInfo>>
      [] OTHER -> <<TwoToken>>

PoolSpecialization_new(specialization) ==
    CASE specialization = 0 -> <<General>>
      [] specialization = 1 -> <<MinimalSwapInfo>>
      [] specialization = 2 -> <<TwoToken>>
      [] OTHER -> <<>>

(* convert_pool_registered, lines 364-374. *)
convert_pool_registered(registration, meta) ==
    IF PoolSpecialization_new(registration.specialization) = <<>>
    THEN Err("Invalid PoolSpecialization value")
    ELSE Ok([kind |-> "PoolRegistered", block_number |-> meta,
             pool_id |-> registration.pool_id,
             specialization |->
                PoolSpecialization_new(registration.specialization)[1]])

(* convert_tokens_registered, lines 376-388. *)
convert_tokens_registered(registration, meta) ==
    Ok([kind |-> "TokensRegistered", block_number |-> meta,
        pool_id |-> registration.pool_id, tokens |-> registration.tokens])

(* The closure of filter_map, lines 269-291: <<>> for None, <<r>> for      *)
(* Some(r).                                                                *)
convert_contract_event_Strict(event) ==
    IF event.meta = <<>> THEN <<Err("event without metadata")>>
    ELSE IF event.kind = "PoolRegistered"
         THEN <<convert_pool_registered(event, event.meta[1])>>
    ELSE IF event.kind = "TokensRegistered"
         THEN <<convert_tokens_registered(event, event.meta[1])>>
    ELSE IF event.kind = "TokensDeregistered"
         THEN <<Err("unexpected Token Deregistration event")>>
    ELSE <<>>

convert_contract_event(event) ==
    IF event.meta = <<>> THEN <<Err("event without metadata")>>
    ELSE IF event.kind = "PoolRegistered"
         THEN <<convert_pool_registered(event, event.meta[1])>>
    ELSE IF event.kind = "TokensRegistered"
         THEN <<convert_tokens_registered(event, event.meta[1])>>
    ELSE <<>>

(* collect::<Result<Vec<_>>>(), line 292: the first Err, or all the Ok. *)
RECURSIVE collect(_, _)
collect(results, events) ==
    IF results = <<>> THEN Ok(events)
    ELSE IF Head(results) = <<>> THEN collect(Tail(results), events)
    ELSE IF Head(results)[1].ok
         THEN collect(Tail(results), Append(events, Head(results)[1].events))
    ELSE Head(results)[1]

(* PoolRegistry::contract_to_balancer_events, lines 263-293. *)
contract_to_balancer_events_Lenient(contract_events) ==
    collect([i \in 1..Len(contract_events) |->
                LET result == convert_contract_event(contract_events[i])
                IN  IF result # <<>> /\ ~result[1].ok THEN <<>> ELSE result],
            <<>>)

contract_to_balancer_events(contract_events) ==
    collect([i \in 1..Len(contract_events) |->
                convert_contract_event(contract_events[i])], <<>>)

(* A batch of contract events reaches append_events (line 342) or the      *)
(* replace_events of the event store (line 329) and is converted.          *)
Convert(contract_events) ==
    /\ converted = NotConverted
    /\ converted' = <<[of |-> contract_events,
                       to |-> contract_to_balancer_events(contract_events)]>>
    /\ UNCHANGED pool_vars
    /\ UNCHANGED <<orderbook_vars, solver_vars>>

NextConvert == \E contract_events \in ContractBatches : Convert(contract_events)

SpecConvert == Init /\ [][NextConvert]_vars

(***************************************************************************)
(* The event store, impl EventStoring for PoolRegistry, lines 323-351: the *)
(* calls the event handler makes with batches of contract events.  Its     *)
(* batches speak of pool 1.  The call record notes whether the batch had   *)
(* an event without metadata or a PoolRegistered whose specialization is   *)
(* none of 0, 1, 2.                                                        *)
(***************************************************************************)
StoreBatches ==
    UNION {[1..n -> {event \in ContractEvents :
                        event.kind = "Other" \/ event.pool_id = 1}] :
            n \in 0..MaxBatch}

IsMalformed(event) ==
    \/ event.meta = <<>>
    \/ event.kind = "PoolRegistered" /\ event.specialization \notin {0, 1, 2}

HasMalformed(contract_events) ==
    \E i \in 1..Len(contract_events) : IsMalformed(contract_events[i])

(* What a call of the event store leaves, given what its conversion        *)
(* returned: the ? of lines 331 and 344 returns the Err before the         *)
(* registry is touched.                                                    *)
Stored(op, range_start, contract_events, balancer_events, outcomes) ==
    IF ~balancer_events.ok
    THEN /\ UNCHANGED <<pools, pending_pools, pools_by_token, tip, origin>>
         /\ call' = [op |-> op, from |-> range_start, ids |-> {}, ok |-> FALSE,
                     malformed |-> HasMalformed(contract_events)]
    ELSE \E out \in outcomes :
         /\ pools' = out.self.pools
         /\ pending_pools' = out.self.pending_pools
         /\ pools_by_token' = out.self.pools_by_token
         /\ call' = [op |-> op, from |-> range_start,
                     ids |-> PoolIdsOf(balancer_events.events), ok |-> out.ok,
                     malformed |-> HasMalformed(contract_events)]
         /\ tip' = Max(BlocksOf(balancer_events.events)
                         \cup {IF op = "store_replace_events" THEN 0 ELSE tip})
         /\ origin' = OriginAfter(
                          IF op = "store_replace_events"
                          THEN OriginBefore(origin, 0) ELSE origin,
                          balancer_events.events, out.self.pending_pools)

(* EventStoring::append_events, lines 341-346. *)
StoreAppendEvents(contract_events) ==
    /\ calls < MaxStoreCalls
    /\ calls' = calls + 1
    /\ LET balancer_events == contract_to_balancer_events(contract_events)
       IN  Stored("store_append_events", 0, contract_events, balancer_events,
                  IF balancer_events.ok
                  THEN insert_events(Self, balancer_events.events) ELSE {})
    /\ converted' = converted
    /\ UNCHANGED <<orderbook_vars, solver_vars>>

(* EventStoring::replace_events, lines 324-339; of range it logs the       *)
(* start.                                                                  *)
StoreReplaceEvents_FromRange(contract_events, range_start) ==
    /\ calls < MaxStoreCalls
    /\ calls' = calls + 1
    /\ LET balancer_events == contract_to_balancer_events(contract_events)
       IN  Stored("store_replace_events", range_start, contract_events,
                  balancer_events,
                  IF balancer_events.ok
                  THEN replace_events(Self, range_start, balancer_events.events)
                  ELSE {})
    /\ converted' = converted
    /\ UNCHANGED <<orderbook_vars, solver_vars>>

StoreReplaceEvents(contract_events, range_start) ==
    /\ calls < MaxStoreCalls
    /\ calls' = calls + 1
    /\ LET balancer_events == contract_to_balancer_events(contract_events)
       IN  Stored("store_replace_events", range_start, contract_events,
                  balancer_events,
                  IF balancer_events.ok
                  THEN replace_events(Self, 0, balancer_events.events) ELSE {})
    /\ converted' = converted
    /\ UNCHANGED <<orderbook_vars, solver_vars>>

NextStore ==
    \/ \E contract_events \in StoreBatches : StoreAppendEvents(contract_events)
    \/ \E contract_events \in StoreBatches, range_start \in Blocks :
            StoreReplaceEvents(contract_events, range_start)

SpecStore == Init /\ [][NextStore]_vars

(***************************************************************************)
(* PoolSpecialization::new on its own, over every u8, 0 to 255.             *)
(***************************************************************************)
ApplyPoolSpecializationNew(specialization) ==
    /\ applied = NotApplied
    /\ applied' = Application("PoolSpecialization::new", specialization,
                              PoolSpecialization_new(specialization))
    /\ UNCHANGED <<orderbook_vars, registry_vars, request, simulation>>

NextSpecialization ==
    \E specialization \in 0..255 : ApplyPoolSpecializationNew(specialization)

SpecSpecialization == Init /\ [][NextSpecialization]_vars

(***************************************************************************)
(* The liquidity the solvers are given, solver/src/liquidity.rs.  An H160  *)
(* is the number its AddressBytes bytes spell; an amount is a small        *)
(* number; a settlement_handling is the number of the handler the Arc      *)
(* points to.  LimitOrder.id and fee_amount are left out: the code below   *)
(* does not read them.                                                     *)
(***************************************************************************)
H160s == {10, 160, 171}

OrderKinds == {"Buy", "Sell"}

(* struct LimitOrder, lines 45-56. *)
LimitOrdersOver(addresses, amounts, handlings) ==
    [sell_token : addresses, buy_token : addresses, sell_amount : amounts,
     buy_amount : amounts, kind : OrderKinds, partially_fillable : BOOLEAN,
     settlement_handling : handlings]

LimitOrders == LimitOrdersOver(H160s, 1..MaxAmount, 1..MaxHandling)

(* LimitOrder::full_execution_amount, lines 66-71. *)
full_execution_amount_Swapped(self) ==
    CASE self.kind = "Sell" -> self.buy_amount
      [] self.kind = "Buy" -> self.sell_amount

full_execution_amount(self) ==
    CASE self.kind = "Sell" -> self.sell_amount
      [] self.kind = "Buy" -> self.buy_amount

ApplyFullExecutionAmount(order) ==
    /\ applied = NotApplied
    /\ applied' = Application("full_execution_amount", order,
                              full_execution_amount(order))
    /\ UNCHANGED <<orderbook_vars, registry_vars, request, simulation>>

NextExecutionAmount == \E order \in LimitOrders : ApplyFullExecutionAmount(order)

SpecExecutionAmount == Init /\ [][NextExecutionAmount]_vars

(***************************************************************************)
(* The HTTP solver, solver/src/http_solver.rs.  A String is the sequence   *)
(* of its characters, a HashMap a function on its keys.                    *)
(***************************************************************************)
HexDigits ==
    <<"0", "1", "2", "3", "4", "5", "6", "7", "8", "9",
      "a", "b", "c", "d", "e", "f">>

(* {:x} of a fixed-size hash: two lowercase digits for each byte, the      *)
(* first byte first.                                                       *)
RECURSIVE LowerHex(_, _)
LowerHex(value, bytes) ==
    IF bytes = 0 THEN <<>>
    ELSE LowerHex(value \div 256, bytes - 1)
            \o <<HexDigits[((value % 256) \div 16) + 1],
                  HexDigits[(value % 16) + 1]>>

(* usize::to_string: the decimal digits, without leading zeros. *)
RECURSIVE to_string(_)
to_string(index) ==
    IF index < 10 THEN <<HexDigits[index + 1]>>
    ELSE to_string(index \div 10) \o <<HexDigits[(index % 10) + 1]>>

(* AmmOrder: tokens, reserves, fee and settlement_handling, the fields of  *)
(* liquidity.rs lines 113-118.                                             *)
AmmOrdersOver(addresses, amounts, handlings) ==
    [tokens : {TokenPair(a, b) : a \in addresses, b \in addresses} \
                  {<<a, a>> : a \in addresses},
     reserves : amounts \X amounts,
     fee : {[numer |-> 3, denom |-> 1000]},
     settlement_handling : handlings]

(* enum Liquidity, as http_solver.rs matches on it (lines 72-77). *)
LiquidityOver(limit_orders, amm_orders) ==
    [variant : {"Limit"}, order : limit_orders]
        \cup [variant : {"Amm"}, order : amm_orders]

(* Vec<Liquidity> of the entries of a set. *)
LiquidityLists(entries) == UNION {[1..n -> entries] : n \in 0..MaxLiquidity}

(* HttpSolver::token_to_string, lines 63-66. *)
token_to_string_Abbreviated(token) ==
    <<"t">> \o SubSeq(LowerHex(token, AddressBytes), 1, 1)

token_to_string(token) == <<"t">> \o LowerHex(token, AddressBytes)

(* HttpSolver::tokens, lines 69-84: the HashSet of the tokens, then the    *)
(* HashMap of (token_to_string(token), token).                             *)
HttpSolver_tokens(liquidity) ==
    LET set == UNION {IF liquidity[i].variant = "Limit"
                      THEN {liquidity[i].order.sell_token,
                            liquidity[i].order.buy_token}
                      ELSE {liquidity[i].order.tokens[1],
                            liquidity[i].order.tokens[2]} :
                      i \in 1..Len(liquidity)}
    IN  [index \in {token_to_string(token) : token \in set} |->
            CHOOSE token \in set : token_to_string(token) = index]

(* HttpSolver::token_models, lines 87-93. *)
token_models(token_map) == [index \in DOMAIN token_map |-> [decimals |-> 18]]

(* enumerate().map(|(index, x)| (index.to_string(), x)).collect(), lines   *)
(* 97-101 and 124-128.                                                     *)
Enumerated_FromOne(list) ==
    [index \in {to_string(i) : i \in 1..Len(list)} |->
        list[CHOOSE i \in 1..Len(list) : to_string(i) = index]]

Enumerated(list) ==
    [index \in {to_string(i - 1) : i \in 1..Len(list)} |->
        list[CHOOSE i \in 1..Len(list) : to_string(i - 1) = index]]

(* HttpSolver::orders, lines 96-102. *)
HttpSolver_orders(limit_orders) == Enumerated(limit_orders)

(* HttpSolver::order_models, lines 105-120. *)
order_models(limit_orders) ==
    [index \in DOMAIN limit_orders |->
        [sell_token |-> token_to_string(limit_orders[index].sell_token),
         buy_token |-> token_to_string(limit_orders[index].buy_token),
         sell_amount |-> limit_orders[index].sell_amount,
         buy_amount |-> limit_orders[index].buy_amount,
         allow_partial_fill |-> limit_orders[index].partially_fillable,
         is_sell_order |-> limit_orders[index].kind = "Sell"]]

(* HttpSolver::amms, lines 123-129. *)
amms(amm_orders) == Enumerated(amm_orders)

(* HttpSolver::amm_models, lines 132-146; the fee is the quotient of the   *)
(* two numbers.                                                            *)
amm_models(amm_orders) ==
    [index \in DOMAIN amm_orders |->
        [token1 |-> token_to_string(amm_orders[index].tokens[1]),
         token2 |-> token_to_string(amm_orders[index].tokens[2]),
         balance1 |-> amm_orders[index].reserves[1],
         balance2 |-> amm_orders[index].reserves[2],
         fee |-> <<amm_orders[index].fee.numer, amm_orders[index].fee.denom>>,
         mandatory |-> FALSE]]

(* The orders of one variant, in their order. *)
OrdersOf(liquidity, variant) ==
    LET chosen == SelectSeq(liquidity, LAMBDA l : l.variant = variant)
    IN  [i \in 1..Len(chosen) |-> chosen[i].order]

(* split_liquidity, lines 205-215. *)
split_liquidity_Prepending(liquidity) ==
    LET limit_orders == OrdersOf(liquidity, "Limit")
        amm_orders == OrdersOf(liquidity, "Amm")
    IN  <<[i \in 1..Len(limit_orders) |-> limit_orders[Len(limit_orders) + 1 - i]],
          [i \in 1..Len(amm_orders) |-> amm_orders[Len(amm_orders) + 1 - i]]>>

split_liquidity(liquidity) ==
    <<OrdersOf(liquidity, "Limit"), OrdersOf(liquidity, "Amm")>>

(* HttpSolver::prepare_model, lines 148-165. *)
prepare_model(liquidity) ==
    LET token_map == HttpSolver_tokens(liquidity)
        split == split_liquidity(liquidity)
        limit_orders == HttpSolver_orders(split[1])
        amm_orders == amms(split[2])
    IN  [model |-> [tokens |-> token_models(token_map),
                    orders |-> order_models(limit_orders),
                    uniswaps |-> amm_models(amm_orders),
                    default_fee |-> 0],
         tokens |-> token_map,
         limit_orders |-> limit_orders,
         amm_orders |-> amm_orders]

ApplyPrepareModel(liquidity) ==
    /\ applied = NotApplied
    /\ applied' = Application("prepare_model", liquidity, prepare_model(liquidity))
    /\ UNCHANGED <<orderbook_vars, registry_vars, request, simulation>>

NextPrepare ==
    \E liquidity \in LiquidityLists(
            LiquidityOver(LimitOrders,
                          AmmOrdersOver(H160s, 1..MaxAmount, 1..MaxHandling))) :
        ApplyPrepareModel(liquidity)

SpecPrepare == Init /\ [][NextPrepare]_vars

(***************************************************************************)
(* The round trip of HttpSolver::solve, lines 217-225, for a send that     *)
(* returned a settled model.  convert_settlement is modelled after section *)
(* 4.5 of the specification; what it does to the encoder is the list of    *)
(* the encode calls it makes: for each id, the settlement_handling invoked *)
(* and the execution handed to it.                                         *)
(***************************************************************************)
(* The settled models a solver can answer a prepared model with: executed  *)
(* amounts for some of the orders, balance updates of opposite signs for   *)
(* some of the uniswaps, a price for every token.                          *)
SettledModels(prepared) ==
    {[orders |-> executed, uniswaps |-> updated,
      prices |-> [id \in DOMAIN prepared.model.tokens |-> 1]] :
        executed \in UNION {[ids -> [exec_sell_amount : 1..MaxAmount,
                                     exec_buy_amount : 1..MaxAmount]] :
                                ids \in SUBSET DOMAIN prepared.model.orders},
        updated \in UNION {[ids -> {[balance_update1 |-> 1, balance_update2 |-> -1],
                                    [balance_update1 |-> -1, balance_update2 |-> 1]}] :
                                ids \in SUBSET DOMAIN prepared.model.uniswaps}}

(* The execution of a limit order: the executed amount of the side its     *)
(* kind names.                                                             *)
limit_execution(order, executed) ==
    CASE order.kind = "Sell" -> executed.exec_sell_amount
      [] order.kind = "Buy" -> executed.exec_buy_amount

(* The AmmOrderExecution of the signed balance updates: the AMM takes in   *)
(* the token whose balance grows and gives out the other.                  *)
amm_execution(amm, updated) ==
    IF updated.balance_update1 > 0
    THEN [input |-> <<amm.tokens[1], updated.balance_update1>>,
          output |-> <<amm.tokens[2], 0 - updated.balance_update2>>]
    ELSE [input |-> <<amm.tokens[2], updated.balance_update2>>,
          output |-> <<amm.tokens[1], 0 - updated.balance_update1>>]

convert_settlement(settled, prepared) ==
    [limit |-> [id \in DOMAIN settled.orders |->
                    [settlement_handling |->
                        prepared.limit_orders[id].settlement_handling,
                     execution |->
                        limit_execution(prepared.limit_orders[id],
                                        settled.orders[id])]],
     amm |-> [id \in DOMAIN settled.uniswaps |->
                    [settlement_handling |->
                        prepared.amm_orders[id].settlement_handling,
                     execution |->
                        amm_execution(prepared.amm_orders[id],
                                      settled.uniswaps[id])]],
     prices |-> [token \in {prepared.tokens[id] : id \in DOMAIN settled.prices} |->
                    settled.prices[CHOOSE id \in DOMAIN settled.prices :
                                        prepared.tokens[id] = token]]]

(* Solver::solve, lines 217-225. *)
Solve(liquidity, settled) ==
    /\ applied = NotApplied
    /\ applied' = Application("solve",
                              [liquidity |-> liquidity, settled |-> settled],
                              convert_settlement(settled, prepare_model(liquidity)))
    /\ UNCHANGED <<orderbook_vars, registry_vars, request, simulation>>

NextRoundTrip ==
    \E liquidity \in LiquidityLists(LiquidityOver(
            {order \in LimitOrdersOver({160, 171}, {MaxAmount},
                                       1..MaxRoundTripHandling) :
                order.sell_token < order.buy_token},
            AmmOrdersOver({160, 171}, {MaxAmount}, 1..MaxRoundTripHandling))) :
        \E settled \in SettledModels(prepare_model(liquidity)) :
            Solve(liquidity, settled)

SpecRoundTrip == Init /\ [][NextRoundTrip]_vars

(***************************************************************************)
(* HttpSolver::send inside solve, lines 167-202 and 217-225, step by step: *)
(* the request is posted, the wall clock advances while the call waits,    *)
(* the status line arrives or the transport fails, the body arrives or     *)
(* cannot be read.  The client of line 51 is built without a timeout and   *)
(* time_limit goes into the query (lines 30-38, 170): nothing in the call  *)
(* ends the wait.                                                          *)
(***************************************************************************)
(* StatusCode::is_success, called on line 193. *)
is_success_BelowClientError(status) == status >= 200 /\ status < 400

is_success(status) == status >= 200 /\ status < 300

(* The response bodies: the first is the JSON of a settled model. *)
ParsableTexts == {"settled model json"}

(* serde_json::from_str, line 200. *)
from_str(text) ==
    IF text \in ParsableTexts THEN Ok(text)
    ELSE Err("failed to decode response json")

(* The rest of send from line 185 on, given the status and the text. *)
send_result(status, text) ==
    IF ~is_success(status) THEN Err("solver response is not success")
    ELSE from_str(text)

(* solve, lines 219-223: the ? on send, then convert_settlement. *)
solve_result(sent) == IF sent.ok THEN Ok("Some(settlement)") ELSE sent

(* solve calls send, which posts the request: lines 218-219, 168-179. *)
PostRequest(time_limit) ==
    /\ request.pc = "idle"
    /\ request' = [request EXCEPT !.pc = "sending", !.time_limit = time_limit,
                                  !.requests = @ + 1]
    /\ UNCHANGED <<orderbook_vars, registry_vars, applied, simulation>>

(* Time passes while request.send() or response.text() is awaited. *)
Wait ==
    /\ request.pc \in {"sending", "reading"}
    /\ request.elapsed < MaxElapsed
    /\ request' = [request EXCEPT !.elapsed = @ + 1]
    /\ UNCHANGED <<orderbook_vars, registry_vars, applied, simulation>>

(* request.send().await is an Err, line 179. *)
SendFails ==
    /\ request.pc = "sending"
    /\ request' = [request EXCEPT !.pc = "done",
                       !.sent = <<Err("failed to send request")>>,
                       !.solved = <<solve_result(Err("failed to send request"))>>]
    /\ UNCHANGED <<orderbook_vars, registry_vars, applied, simulation>>

(* request.send().await is a response, lines 179-180. *)
ReceiveStatus(status) ==
    /\ request.pc = "sending"
    /\ request' = [request EXCEPT !.pc = "reading", !.status = <<status>>]
    /\ UNCHANGED <<orderbook_vars, registry_vars, applied, simulation>>

(* response.text().await is an Err, lines 181-184. *)
TextFails ==
    /\ request.pc = "reading"
    /\ request' = [request EXCEPT !.pc = "done",
                       !.sent = <<Err("failed to decode response body")>>,
                       !.solved = <<solve_result(Err("failed to decode response body"))>>]
    /\ UNCHANGED <<orderbook_vars, registry_vars, applied, simulation>>

(* response.text().await is the body, lines 181-201, and solve goes on. *)
ReceiveText(text) ==
    /\ request.pc = "reading"
    /\ LET sent == send_result(request.status[1], text)
       IN  request' = [request EXCEPT !.pc = "done", !.text = <<text>>,
                          !.sent = <<sent>>, !.solved = <<solve_result(sent)>>]
    /\ UNCHANGED <<orderbook_vars, registry_vars, applied, simulation>>

NextSend ==
    \/ \E time_limit \in 1..MaxTimeLimit : PostRequest(time_limit)
    \/ Wait
    \/ SendFails
    \/ \E status \in {200, 204, 302, 404, 500} : ReceiveStatus(status)
    \/ TextFails
    \/ \E text \in ParsableTexts \cup {"other json", "not json"} :
            ReceiveText(text)

SpecSend == Init /\ [][NextSend]_vars

(***************************************************************************)
(* simulate_settlements, solver/src/settlement_simulation.rs, step by      *)
(* step: the calls are queued in the batch, the batch is executed in       *)
(* chunks while the block number is fetched, the results are collected.    *)
(* The settlements of a call all differ: the i-th has the call data i; the *)
(* transaction builders carry the account and the address of the contract. *)
(***************************************************************************)
SIMULATE_BATCH_SIZE == 10

Settlements(n) == [i \in 1..n |-> [from |-> 10, to |-> 160, data |-> i]]

(* tenderly_link, lines 57-71: the pieces of the formatted string. *)
tenderly_link_Genesis(current_block, network_id, tx) ==
    <<"https://dashboard.tenderly.co/", "gp-v2/staging/simulator/new?block=",
      0, "&blockIndex=0&from=", tx.from,
      "&gas=8000000&gasPrice=0&value=0&contractAddress=", tx.to,
      "&rawFunctionInput=0x", tx.data, "&network=", network_id>>

tenderly_link(current_block, network_id, tx) ==
    <<"https://dashboard.tenderly.co/", "gp-v2/staging/simulator/new?block=",
      current_block, "&blockIndex=0&from=", tx.from,
      "&gas=8000000&gasPrice=0&value=0&contractAddress=", tx.to,
      "&rawFunctionInput=0x", tx.data, "&network=", network_id>>

(* The map over the futures, lines 41-54: the Ok becomes Ok(()), the Err   *)
(* gets the link as its context.                                           *)
collected_Reversed(futures, links) ==
    [i \in 1..Len(futures) |->
        LET j == Len(futures) + 1 - i
        IN  IF futures[j][1].ok THEN Ok("()")
            ELSE [ok |-> FALSE, error |-> futures[j][1].error, context |-> links[j]]]

collected(futures, links) ==
    [i \in 1..Len(futures) |->
        IF futures[i][1].ok THEN Ok("()")
        ELSE [ok |-> FALSE, error |-> futures[i][1].error, context |-> links[i]]]

(* Lines 20-28: each settlement becomes a call queued in the batch and a   *)
(* future, none of them resolved.                                          *)
Simulate(n, network_id) ==
    /\ simulation.pc = "idle"
    /\ simulation' = [simulation EXCEPT
            !.pc = "joined",
            !.settlements = Settlements(n),
            !.network_id = network_id,
            !.calls = [i \in 1..n |-> 0],
            !.futures = [i \in 1..n |-> <<>>]]
    /\ UNCHANGED <<orderbook_vars, registry_vars, applied, request>>

(* batch.execute_all(SIMULATE_BATCH_SIZE), line 33: the next chunk of the  *)
(* queue is sent to the node and each of its futures resolves, to the      *)
(* value of the call or to its error.                                      *)
ExecuteBatch_OneFlush(failed) ==
    /\ simulation.pc = "joined"
    /\ simulation.executed < Len(simulation.settlements)
    /\ LET last == Min({simulation.executed + SIMULATE_BATCH_SIZE,
                        Len(simulation.settlements)})
           chunk == (simulation.executed + 1)..last
       IN  /\ failed \subseteq chunk
           /\ simulation' = [simulation EXCEPT
                   !.executed = Len(simulation.settlements),
                   !.calls = [i \in DOMAIN @ |-> IF i \in chunk THEN @[i] + 1 ELSE @[i]],
                   !.futures = [i \in DOMAIN @ |->
                       IF i \in chunk
                       THEN <<IF i \in failed THEN Err("execution reverted")
                              ELSE Ok("bytes")>>
                       ELSE @[i]]]
    /\ UNCHANGED <<orderbook_vars, registry_vars, applied, request>>

ExecuteBatch(failed) ==
    /\ simulation.pc = "joined"
    /\ simulation.executed < Len(simulation.settlements)
    /\ LET last == Min({simulation.executed + SIMULATE_BATCH_SIZE,
                        Len(simulation.settlements)})
           chunk == (simulation.executed + 1)..last
       IN  /\ failed \subseteq chunk
           /\ simulation' = [simulation EXCEPT
                   !.executed = last,
                   !.calls = [i \in DOMAIN @ |-> IF i \in chunk THEN @[i] + 1 ELSE @[i]],
                   !.futures = [i \in DOMAIN @ |->
                       IF i \in chunk
                       THEN <<IF i \in failed THEN Err("execution reverted")
                              ELSE Ok("bytes")>>
                       ELSE @[i]]]
    /\ UNCHANGED <<orderbook_vars, registry_vars, applied, request>>

(* web3.eth().block_number(), line 34, the other branch of the join!. *)
BlockNumber(current_block) ==
    /\ simulation.pc = "joined"
    /\ simulation.current_block = <<>>
    /\ simulation' = [simulation EXCEPT !.current_block = <<current_block>>]
    /\ UNCHANGED <<orderbook_vars, registry_vars, applied, request>>

(* Lines 37-54, once both branches of the join! are through. *)
Return ==
    /\ simulation.pc = "joined"
    /\ simulation.executed = Len(simulation.settlements)
    /\ simulation.current_block # <<>>
    /\ simulation' = [simulation EXCEPT
            !.pc = "done",
            !.returned =
                IF ~simulation.current_block[1].ok
                THEN <<Err("failed to get current block")>>
                ELSE <<Ok(collected(
                        simulation.futures,
                        [i \in 1..Len(simulation.settlements) |->
                            tenderly_link(simulation.current_block[1].events,
                                          simulation.network_id,
                                          simulation.settlements[i])]))>>]
    /\ UNCHANGED <<orderbook_vars, registry_vars, applied, request>>

NextSimulate ==
    \/ \E n \in 0..MaxSettlements, network_id \in {"1", "4"} :
            Simulate(n, network_id)
    \/ \E failed \in SUBSET (1..MaxSettlements) : ExecuteBatch(failed)
    \/ \E current_block \in {Ok(b) : b \in 1..MaxBlockNumber}
                                \cup {Err("transport")} :
            BlockNumber(current_block)
    \/ Return

SpecSimulate == Init /\ [][NextSimulate]_vars

(***************************************************************************)
(* PoolRegistry::insert_events on its own, lines 181-217, on the empty     *)
(* registry: the events of one pool, of either kind and with different     *)
(* payloads, in the order of their blocks.                                 *)
(***************************************************************************)
ApplyInsertEvents(events) ==
    /\ applied = NotApplied
    /\ applied' = Application("insert_events", events,
                              insert_events(Registry(EmptyMap, EmptyMap, EmptyMap),
                                            events))
    /\ UNCHANGED <<orderbook_vars, registry_vars, request, simulation>>

NextInsert ==
    \E n \in 0..MaxInsertEvents :
        \E events \in [1..n ->
                [kind : {"PoolRegistered"}, block_number : Blocks, pool_id : {1},
                 specialization : {General, MinimalSwapInfo}]
                \cup [kind : {"TokensRegistered"}, block_number : Blocks,
                      pool_id : {1}, tokens : TokenLists]] :
            InBlockOrder(events) /\ ApplyInsertEvents(events)

SpecInsert == Init /\ [][NextInsert]_vars

(***************************************************************************)
(* Vocabulary of the properties.                                           *)
(***************************************************************************)
Elements(os) == {os[i] : i \in 1..Len(os)}

NoTwoEqual(os) ==
    \A i, j \in 1..Len(os) : i # j => os[i].order_creation # os[j].order_creation

MidSwapRemove == \E t \in Tasks : pc[t] = "remove_truncate"

(* Task t returns from add_order in this step. *)
AddReturns(t) == pc[t] \in AddPcs /\ pc'[t] = "idle"

(* The clock value the validity check of t's add_order read (or reads now). *)
ObservedNow(t) == IF pc[t] = "add_valid_to" THEN clock ELSE now[t]

C1_DuplicateRejected(t) ==
    (pc[t] = "add_dup" /\ pc'[t] # "add_dup" /\ arg[t] \in Creations(orders))
        => /\ pc'[t] = "idle"
           /\ ret'[t].kind = "DuplicatedOrder"
           /\ Len(orders') = Len(orders)

(* C1: the book never stores two orders with equal order_creation (outside *)
(* the middle of a swap_remove, which the write guard hides), and an       *)
(* add_order that passed the validity check with a payload that is stored  *)
(* returns DuplicatedOrder and leaves the number of stored orders as it was.*)
C1_NoDuplicateOrders ==
    /\ [](NoTwoEqual(committed) /\ (~MidSwapRemove => NoTwoEqual(orders)))
    /\ [][\A t \in Tasks : C1_DuplicateRejected(t)]_vars

C1_Witness ==
    \E t \in Tasks :
        /\ pc[t] = "idle"
        /\ ret[t].kind = "DuplicatedOrder"
        /\ Len(orders) >= 1
        /\ writer = NoTask

C2_Outcome(t) ==
    LET o == arg[t]
        k == ret'[t].kind
        future == o.valid_to > ObservedNow(t)
        stored == o \in Creations(orders)
        signed == validate_signature(o, domain_separator) # NoOwner
    IN  /\ AddReturns(t) =>
              /\ k \in {"PastValidTo", "DuplicatedOrder", "InvalidSignature", "Ok"}
              /\ (k = "PastValidTo") <=> ~future
              /\ (k = "DuplicatedOrder") <=> (future /\ stored)
              /\ (k = "InvalidSignature") <=> (future /\ ~stored /\ ~signed)
              /\ (k = "Ok") <=> (future /\ ~stored /\ signed)
        /\ (pc[t] = "add_valid_to" /\ pc'[t] # pc[t] /\ o.valid_to <= clock)
              => AddReturns(t)
        /\ (pc[t] = "add_dup" /\ pc'[t] # pc[t] /\ stored) => AddReturns(t)
        /\ (pc[t] = "add_push" /\ pc'[t] # pc[t]) => AddReturns(t)

(* C2: add_order checks PastValidTo, then DuplicatedOrder, then            *)
(* InvalidSignature: a payload with valid_to <= the clock read is rejected *)
(* with PastValidTo whatever else is wrong with it; a payload in the       *)
(* future that is stored is rejected with DuplicatedOrder; and             *)
(* InvalidSignature is returned exactly for a payload in the future that   *)
(* is not stored and whose signer cannot be recovered.                     *)
C2_CheckOrder == [][\A t \in Tasks : C2_Outcome(t)]_vars

C2_Witness ==
    \E s, t \in Tasks :
        /\ s # t
        /\ pc[s] = "idle" /\ ret[s].kind = "InvalidSignature"
        /\ pc[t] = "idle" /\ ret[t].kind = "PastValidTo"
        /\ Len(orders) >= 1

C3_Inserted(t) ==
    (AddReturns(t) /\ ret'[t].kind = "Ok") =>
        /\ Len(orders') = Len(orders) + 1
        /\ SubSeq(orders', 1, Len(orders)) = orders
        /\ LET new == orders'[Len(orders')]
           IN  /\ new.order_creation = arg[t]
               /\ new.owner = validate_signature(arg[t], domain_separator)
               /\ new.owner # NoOwner
               /\ new.uid = <<struct_hash(arg[t]), new.owner, arg[t].valid_to>>
               /\ ret'[t].uid = new.uid

(* C3: a successful add_order appends exactly one Order: its               *)
(* order_creation is the submitted payload, its owner the signer recovered *)
(* under the book's domain separator, its uid the one derived from         *)
(* (payload, owner); the call returns that uid and the orders stored       *)
(* before are unchanged.                                                   *)
C3_SuccessfulAdd == [][\A t \in Tasks : C3_Inserted(t)]_vars

C3_Witness ==
    \E t \in Tasks :
        /\ pc[t] = "idle"
        /\ ret[t].kind = "Ok"
        /\ Len(orders) = 2
        /\ orders[2].uid = ret[t].uid
        /\ orders[2].order_creation.signature = 2

GetReturns(t) == pc[t] = "get_clone" /\ pc'[t] = "idle"

C4_Listed(t) ==
    GetReturns(t) =>
        \A i \in 1..Len(admitted) :
            Count(ret'[t].snap, admitted[i].creation) = 1

(* C4: every get_orders result holds exactly one entry for each admitted   *)
(* payload that no matching remove_order and no sweep at a clock value     *)
(* >= its valid_to has taken out since.                                    *)
C4_AdmittedStaysListed == [][\A t \in Tasks : C4_Listed(t)]_vars

C4_Witness ==
    \E s, t \in Tasks :
        /\ s # t
        /\ pc[t] = "idle" /\ ret[t].kind = "Orders"
        /\ pc[s] = "idle" /\ ret[s].kind \in {"Removed", "Swept"}
        /\ Len(ret[t].snap) = 2
        /\ Len(orders) = 1
        /\ orders[1] \in Elements(ret[t].snap)

SweepReturns(t) == pc[t] = "sweep_retain" /\ pc'[t] = "idle"

C5_Swept(t) ==
    SweepReturns(t) =>
        /\ Elements(orders') =
               {x \in Elements(orders) : x.order_creation.valid_to > now[t]}
        /\ Len(orders') =
               Cardinality({i \in 1..Len(orders) :
                               orders[i].order_creation.valid_to > now[t]})
        /\ \A x \in Elements(orders) :
               x.order_creation.valid_to <= now[t] => x \notin Elements(orders')

(* C5: a sweep that read clock value now removes exactly the stored orders *)
(* with valid_to <= now and keeps exactly those with valid_to > now, each  *)
(* as it was.                                                              *)
C5_SweepExact == [][\A t \in Tasks : C5_Swept(t)]_vars

C5_Witness ==
    \E s, t \in Tasks :
        /\ s # t
        /\ pc[s] = "idle" /\ ret[s].kind = "Swept"
        /\ pc[t] = "idle" /\ ret[t].kind = "Orders"
        /\ clock = 1
        /\ Len(ret[t].snap) = 2
        /\ \E x \in Elements(ret[t].snap) : x.order_creation.valid_to = clock
        /\ Len(orders) = 1
        /\ orders[1].order_creation.valid_to > clock
        /\ orders[1] \in Elements(ret[t].snap)

C6_Kept(s) ==
    SweepReturns(s) =>
        \A i \in 1..Len(admitted) :
            admitted[i].observed = now[s]
                => admitted[i].creation \in Creations(orders')

(* C6: an order admitted by an add_order that read clock value t is not    *)
(* removed by a sweep that read the same clock value t.                    *)
C6_SameClockNeverSwept == [][\A s \in Tasks : C6_Kept(s)]_vars

C6_Witness ==
    \E s, t \in Tasks :
        /\ s # t
        /\ clock = 0
        /\ pc[s] = "idle" /\ ret[s].kind = "Swept"
        /\ pc[t] = "idle" /\ ret[t].kind = "Orders"
        /\ Len(ret[t].snap) >= 1
        /\ orders = ret[t].snap

C7_Removed(t) ==
    /\ (pc[t] = "remove_truncate" /\ pc'[t] = "idle") =>
          /\ ret'[t].kind = "Removed"
          /\ Len(orders') = Len(committed) - 1
          /\ \E i \in 1..Len(committed) :
                /\ committed[i].order_creation = arg[t]
                /\ Elements(orders') = {committed[j] : j \in 1..Len(committed) \ {i}}
    /\ (pc[t] = "remove_find" /\ pc'[t] = "idle") =>
          /\ ret'[t].kind = "DoesNotExist"
          /\ arg[t] \notin Creations(orders)
          /\ orders' = orders
    /\ (pc[t] = "remove_find" /\ pc'[t] # pc[t] /\ arg[t] \notin Creations(orders))
          => pc'[t] = "idle"

(* C7: remove_order(o) takes out exactly one stored entry whose            *)
(* order_creation is o and returns Ok, every other stored order staying;   *)
(* when no stored entry equals o it returns DoesNotExist and the book is   *)
(* unchanged.                                                              *)
C7_RemoveExact == [][\A t \in Tasks : C7_Removed(t)]_vars

C7_Witness ==
    \E s, t \in Tasks :
        /\ s # t
        /\ pc[t] = "idle" /\ ret[t].kind = "Removed"
        /\ pc[s] = "idle" /\ ret[s].kind = "Orders"
        /\ Len(ret[s].snap) = 2
        /\ Len(orders) = 1
        /\ orders[1] = ret[s].snap[2]

Contenders(o) ==
    {t \in Tasks : called[t] = o /\ pc[t] = "idle" /\ ret[t].kind # "PastValidTo"}

(* C8: when several tasks each call add_order once with the same payload,  *)
(* signed and in the future at each check, then under every interleaving   *)
(* exactly one of the calls that have returned got Ok, the others got      *)
(* DuplicatedOrder, and the book holds one copy.                           *)
C8_OneWinner ==
    \A o \in OrderCreation :
        (validate_signature(o, domain_separator) # NoOwner /\ Contenders(o) # {}) =>
            /\ Cardinality({t \in Contenders(o) : ret[t].kind = "Ok"}) = 1
            /\ \A t \in Contenders(o) : ret[t].kind \in {"Ok", "DuplicatedOrder"}
            /\ Count(orders, o) = 1

C8_Witness ==
    \E s, t \in Tasks :
        /\ s # t
        /\ called[s] = called[t]
        /\ pc[s] = "idle" /\ ret[s].kind = "Ok"
        /\ pc[t] = "idle" /\ ret[t].kind = "DuplicatedOrder"
        /\ Count(orders, called[s]) = 1

(* C9 as stated: once OrderA's add and then OrderB's add have succeeded,  *)
(* every get_orders result that contains OrderB contains OrderA.           *)
C9_Original ==
    [][\A t \in Tasks :
          (GetReturns(t) /\ progress = 2
              /\ OrderB \in Creations(ret'[t].snap))
            => OrderA \in Creations(ret'[t].snap)]_vars

C9_Ordered(t) ==
    GetReturns(t) =>
        \A i, j \in 1..Len(admitted) :
            (i < j /\ admitted[j].creation \in Creations(ret'[t].snap))
                => admitted[i].creation \in Creations(ret'[t].snap)

(* C9, amended: for two successful adds A then B neither of which a        *)
(* remove_order or a sweep has taken out since, every get_orders result    *)
(* that contains B's order contains A's.                                   *)
C9_AddsTotallyOrdered == [][\A t \in Tasks : C9_Ordered(t)]_vars

C9_Witness ==
    \E t \in Tasks :
        /\ pc[t] = "idle" /\ ret[t].kind = "Orders"
        /\ progress = 2
        /\ Len(ret[t].snap) = 2
        /\ ret[t].snap[1].order_creation = OrderA
        /\ ret[t].snap[2].order_creation = OrderB

C10_Snapshot(t) ==
    /\ GetReturns(t) =>
          /\ ret'[t].kind = "Orders"
          /\ ret'[t].snap = committed
    /\ (pc[t] = "idle" /\ pc'[t] = "idle" /\ ret[t].kind = "Orders")
          => ret'[t] = ret[t]

(* C10: get_orders returns the book as a completed write left it, never a  *)
(* half-applied mutation, and what a task was handed stays as it is while  *)
(* the book changes afterwards.                                            *)
C10_IndependentSnapshot == [][\A t \in Tasks : C10_Snapshot(t)]_vars

C10_Witness ==
    \E t \in Tasks :
        /\ pc[t] = "idle" /\ ret[t].kind = "Orders"
        /\ Len(ret[t].snap) = 2
        /\ writer = NoTask
        /\ orders # ret[t].snap
        /\ Len(orders) = 2

(***************************************************************************)
(* The pool registry: vocabulary of its properties.                        *)
(***************************************************************************)
Bucket(token) == MapGet(pools_by_token, token, {})

Appended == call.op = "append_events"

Replaced == call.op = "replace_events"

(* C11: for every token T and every pool id in pools_by_token[T], the id   *)
(* is a key of pools and the tokens of the pool registered under it        *)
(* contain T.                                                              *)
C11_BucketsHoldTheirPools ==
    \A token \in DOMAIN pools_by_token :
        \A pool_id \in pools_by_token[token] :
            /\ pool_id \in DOMAIN pools
            /\ token \in pools[pool_id].tokens

(* C12: every pool of pools is found through each of its tokens: its id is *)
(* in the bucket pools_by_token holds for the token.                       *)
C12_PoolsAreIndexed ==
    \A pool_id \in DOMAIN pools :
        \A token \in pools[pool_id].tokens :
            /\ token \in DOMAIN pools_by_token
            /\ pool_id \in pools_by_token[token]

(* A pool of two tokens that a replace_events from a later block left      *)
(* registered and in both of its buckets.                                  *)
C12_Witness ==
    /\ Replaced /\ call.from = 1
    /\ \E pool_id \in DOMAIN pools :
        /\ DOMAIN pools = {pool_id}
        /\ pool_id \notin call.ids
        /\ pools[pool_id].tokens = {1, 2}
        /\ Bucket(1) = {pool_id} /\ Bucket(2) = {pool_id}
        /\ origin.pools[pool_id] = 0
    /\ tip = 0

(* C13: the block_created of every entry of pending_pools and of pools is  *)
(* the block of the event, PoolRegistered or TokensRegistered, that opened *)
(* its builder; the registration that follows, also one of a later block,  *)
(* leaves it as it is.                                                     *)
C13_BlockCreatedIsFirstEvent ==
    /\ DOMAIN origin.pending = DOMAIN pending_pools
    /\ DOMAIN origin.pools = DOMAIN pools
    /\ \A pool_id \in DOMAIN pending_pools :
            pending_pools[pool_id].block_created = origin.pending[pool_id]
    /\ \A pool_id \in DOMAIN pools :
            pools[pool_id].block_created = origin.pools[pool_id]

(* A pool opened by one event of block 0 in the first call and completed   *)
(* by events of block 1 in the second.                                     *)
C13_Witness ==
    /\ Appended /\ calls = 2 /\ tip = 1
    /\ pending_pools = EmptyMap
    /\ \E pool_id \in DOMAIN pools :
        /\ call.ids = {pool_id}
        /\ pools[pool_id].block_created = 0

(* The pools a replace_events from block B deletes. *)
DeletedPools(B) == {id \in DOMAIN pools : pools[id].block_created >= B}

C14_Dropped ==
    Replaced' =>
        LET B == call'.from
        IN  /\ \A id \in DOMAIN pools' :
                    pools'[id].block_created >= B => id \in call'.ids
            /\ \A id \in DOMAIN pending_pools' :
                    pending_pools'[id].block_created >= B => id \in call'.ids
            /\ \A token \in DOMAIN pools_by_token' :
                    \A id \in pools_by_token'[token] \cap DeletedPools(B) :
                        /\ id \in call'.ids
                        /\ id \in DOMAIN pools'
                        /\ token \in pools'[id].tokens

(* C14: after replace_events(B, E) an entry of pools or of pending_pools   *)
(* with block_created >= B is one the events of E created, and a bucket of *)
(* pools_by_token holds the id of a deleted pool only when E registered    *)
(* that id anew, under the tokens E gave it.                               *)
C14_ReplaceDropsFromBlock == [][C14_Dropped]_vars

(* A replace_events from block 1 after which a pool of block 0 stands      *)
(* beside one the events created at block 1, and the bucket of token 2 has *)
(* been emptied.                                                           *)
C14_Witness ==
    /\ Replaced /\ call.from = 1 /\ call.ids = {2} /\ calls = 3
    /\ DOMAIN pools = {1, 2}
    /\ pools[1].block_created = 0 /\ pools[1].tokens = {1}
    /\ pools[2].block_created = 1 /\ pools[2].tokens = {1}
    /\ 2 \in DOMAIN pools_by_token /\ pools_by_token[2] = {}

C15_Kept ==
    Replaced' =>
        \A id \in DOMAIN pools :
            (pools[id].block_created < call'.from /\ id \notin call'.ids) =>
                /\ id \in DOMAIN pools'
                /\ pools'[id] = pools[id]
                /\ \A token \in pools[id].tokens :
                        id \in MapGet(pools_by_token, token, {})
                            <=> id \in MapGet(pools_by_token', token, {})

PoolsWithBoth(token_a, token_b) ==
    {pools[id] : id \in {x \in DOMAIN pools : {token_a, token_b} \subseteq pools[x].tokens}}

(* C16: for two distinct tokens A and B, pools_containing_pair returns the *)
(* registered pools whose tokens contain both A and B, none when one of    *)
(* the tokens has no bucket, whichever of the two is given first.          *)
C16_PairQueryExact ==
    \A token_a \in Tokens, token_b \in Tokens :
        token_a # token_b =>
            /\ pools_containing_pair(Self, TokenPair(token_a, token_b))
                    = <<PoolsWithBoth(token_a, token_b)>>
            /\ pools_containing_pair(Self, TokenPair(token_b, token_a))
                    = pools_containing_pair(Self, TokenPair(token_a, token_b))

(* The block_created of all the entries of pools and of pending_pools. *)
BlocksCreated ==
    {pools[id].block_created : id \in DOMAIN pools}
        \cup {pending_pools[id].block_created : id \in DOMAIN pending_pools}

(* C17: last_event_block is the greatest block_created among the entries   *)
(* of pools and pending_pools taken together, and 0 when there is none.    *)
C17_LastEventBlockIsMaxCreated ==
    /\ BlocksCreated = {} => last_event_block(Self) = 0
    /\ BlocksCreated # {} =>
            /\ last_event_block(Self) \in BlocksCreated
            /\ \A b \in BlocksCreated : b <= last_event_block(Self)

(* After an event of block 1 that only completed the pool an event of      *)
(* block 0 had opened, last_event_block is below the block of the latest   *)
(* event.                                                                  *)
C17_Witness ==
    /\ Appended /\ call.ok /\ tip = 1
    /\ pending_pools = EmptyMap
    /\ DOMAIN pools = call.ids
    /\ BlocksCreated = {0}
    /\ last_event_block(Self) < tip

(* C18: the events of AppendEvents and ReplaceEvents all converted, and    *)
(* neither call returns an error on them, however the events are split     *)
(* into batches, also when a batch leaves a pool with one of its two       *)
(* registrations.                                                          *)
C18_NeverAnError == call.ok

C19_AllOrNothing ==
    Replaced' =>
        IF call'.ok
        THEN /\ pending_pools' = EmptyMap
             /\ \A id \in DOMAIN pools' :
                    pools'[id].block_created >= call'.from => id \in call'.ids
        ELSE /\ pools' = pools
             /\ pending_pools' = pending_pools
             /\ pools_by_token' = pools_by_token

(* C19: when replace_events returns an error, pools, pending_pools and     *)
(* pools_by_token are what they were before the call; when it returns Ok   *)
(* the entries from the block on are deleted and the events applied.       *)
C19_ReplaceIsAtomic == [][C19_AllOrNothing]_vars

(* The batch that was converted and what the conversion returned. *)
Given == converted[1].of

Got == converted[1].to

IsDeregistered(event) == event.kind = "TokensDeregistered" /\ event.meta # <<>>

IsRegistration(event) ==
    /\ event.meta # <<>>
    /\ \/ event.kind = "TokensRegistered"
       \/ event.kind = "PoolRegistered" /\ event.specialization <= 2

(* C20 as stated: a batch with a TokensDeregistered event among its events *)
(* makes the conversion return an error.                                   *)
C20_Original ==
    converted # NotConverted =>
        ((\E i \in 1..Len(Given) : Given[i].kind = "TokensDeregistered")
            => ~Got.ok)

(* C20: a TokensDeregistered event that carries its metadata is dropped by *)
(* the conversion and is no error: the batch converts to what it converts  *)
(* to without the event, and when its other events are registrations that  *)
(* convert, to exactly those, which append_events / replace_events apply.  *)
C20_DeregisteredIsDropped ==
    converted # NotConverted =>
        LET others == SelectSeq(Given, LAMBDA event : ~IsDeregistered(event))
        IN  /\ Got = contract_to_balancer_events(others)
            /\ (\A i \in 1..Len(others) : IsRegistration(others[i])) =>
                    /\ Got.ok
                    /\ Len(Got.events) = Len(others)
                    /\ \A i \in 1..Len(others) :
                            /\ Got.events[i].kind = others[i].kind
                            /\ Got.events[i].pool_id = others[i].pool_id
                            /\ Got.events[i].block_number = others[i].meta[1]

(* A TokensDeregistered follows a PoolRegistered in a batch, and the       *)
(* conversion returns Ok with the PoolRegistered alone.                    *)
C20_Witness ==
    /\ converted # NotConverted
    /\ Len(Given) = 2
    /\ Given[1].kind = "PoolRegistered"
    /\ IsDeregistered(Given[2])
    /\ Got.ok
    /\ Len(Got.events) = 1
    /\ Got.events[1].kind = "PoolRegistered"

StoreCalled == call.op \in {"store_append_events", "store_replace_events"}

C21_Rejected ==
    (StoreCalled' /\ call'.malformed) =>
        /\ ~call'.ok
        /\ pools' = pools
        /\ pending_pools' = pending_pools
        /\ pools_by_token' = pools_by_token

(* C21: when an event of the batch has no metadata, or is a PoolRegistered *)
(* with a specialization outside {0, 1, 2}, append_events and the          *)
(* replace_events of the event store return an error and leave pools,      *)
(* pending_pools and pools_by_token as they were, whatever well-formed     *)
(* events precede the malformed one.                                       *)
C21_MalformedBatchAppliesNothing == [][C21_Rejected]_vars

(* The second call had a malformed event and returned an error, and the    *)
(* pool the first call registered is as it was.                            *)
C21_Witness ==
    /\ StoreCalled /\ call.malformed /\ ~call.ok /\ calls = 2
    /\ DOMAIN pools = {1}
    /\ pools[1].tokens = {1, 2}
    /\ pending_pools = EmptyMap

AppliedTo(fn) == applied # NotApplied /\ applied[1].fn = fn

(* C22: PoolSpecialization::new gives General for 0, MinimalSwapInfo for   *)
(* 1, TwoToken for 2, three different specializations, and for every u8    *)
(* from 3 to 255 an error and no specialization.                           *)
C22_SpecializationFromU8 ==
    AppliedTo("PoolSpecialization::new") =>
        /\ applied[1].arg = 0 => applied[1].result = <<General>>
        /\ applied[1].arg = 1 => applied[1].result = <<MinimalSwapInfo>>
        /\ applied[1].arg = 2 => applied[1].result = <<TwoToken>>
        /\ applied[1].arg \in 3..255 => applied[1].result = <<>>
        /\ Cardinality({General, MinimalSwapInfo, TwoToken}) = 3

(* The largest u8 was rejected. *)
C22_Witness ==
    /\ AppliedTo("PoolSpecialization::new")
    /\ applied[1].arg = 255
    /\ applied[1].result = <<>>

(* C30: the full execution amount of a limit order is its sell_amount when *)
(* its kind is Sell and its buy_amount when its kind is Buy.               *)
C30_FullExecutionAmountByKind ==
    AppliedTo("full_execution_amount") =>
        /\ applied[1].arg.kind = "Sell" =>
                applied[1].result = applied[1].arg.sell_amount
        /\ applied[1].arg.kind = "Buy" =>
                applied[1].result = applied[1].arg.buy_amount

(* A buy order whose two amounts differ got its buy_amount. *)
C30_Witness ==
    /\ AppliedTo("full_execution_amount")
    /\ applied[1].arg.kind = "Buy"
    /\ applied[1].arg.sell_amount = 1
    /\ applied[1].arg.buy_amount = 2
    /\ applied[1].result = 2

(* What prepare_model was given and what it returned. *)
Prepared == AppliedTo("prepare_model")

Input == applied[1].arg

Output == applied[1].result

IsLimit(i) == Input[i].variant = "Limit"

IsAmm(i) == Input[i].variant = "Amm"

(* The token addresses the input refers to. *)
Referenced ==
    {Input[i].order.sell_token : i \in {j \in 1..Len(Input) : IsLimit(j)}}
        \cup {Input[i].order.buy_token : i \in {j \in 1..Len(Input) : IsLimit(j)}}
        \cup {Input[i].order.tokens[1] : i \in {j \in 1..Len(Input) : IsAmm(j)}}
        \cup {Input[i].order.tokens[2] : i \in {j \in 1..Len(Input) : IsAmm(j)}}

LowercaseHex ==
    <<"0", "1", "2", "3", "4", "5", "6", "7", "8", "9",
      "a", "b", "c", "d", "e", "f">>

(* The number a string of lowercase hex digits spells; -1 when a character *)
(* is no such digit.                                                       *)
RECURSIVE HexValue(_)
HexValue(chars) ==
    IF chars = <<>> THEN 0
    ELSE LET last == chars[Len(chars)]
             rest == HexValue(SubSeq(chars, 1, Len(chars) - 1))
         IN  IF rest = -1 \/ ~\E d \in 1..16 : LowercaseHex[d] = last THEN -1
             ELSE 16 * rest + (CHOOSE d \in 1..16 : LowercaseHex[d] = last) - 1

(* The token ids the wire orders and uniswaps use. *)
WireTokenIds ==
    {Output.model.orders[k].sell_token : k \in DOMAIN Output.model.orders}
        \cup {Output.model.orders[k].buy_token : k \in DOMAIN Output.model.orders}
        \cup {Output.model.uniswaps[k].token1 : k \in DOMAIN Output.model.uniswaps}
        \cup {Output.model.uniswaps[k].token2 : k \in DOMAIN Output.model.uniswaps}

(* C28: the token map of the prepared model has exactly one entry for each *)
(* token address a limit order or an AMM of the input refers to; the key   *)
(* of an address is "t" followed by the address in lowercase hex, so       *)
(* different addresses have different ids and every id begins with a       *)
(* letter; the wire model has the same token ids, and every token id of a  *)
(* wire order or uniswap is among them.                                    *)
C28_TokenMap ==
    Prepared =>
        /\ {Output.tokens[id] : id \in DOMAIN Output.tokens} = Referenced
        /\ Cardinality(DOMAIN Output.tokens) = Cardinality(Referenced)
        /\ \A id \in DOMAIN Output.tokens :
                /\ id[1] = "t"
                /\ Len(id) = 1 + 2 * AddressBytes
                /\ HexValue(Tail(id)) = Output.tokens[id]
        /\ DOMAIN Output.model.tokens = DOMAIN Output.tokens
        /\ WireTokenIds \subseteq DOMAIN Output.model.tokens

(* An order and an AMM that share a token: three addresses, three ids. *)
C28_Witness ==
    /\ Prepared
    /\ Len(Input) = 2 /\ IsLimit(1) /\ IsAmm(2)
    /\ Referenced = {10, 160, 171}
    /\ DOMAIN Output.tokens = {<<"t", "0", "a">>, <<"t", "a", "0">>, <<"t", "a", "b">>}
    /\ Output.tokens[<<"t", "a", "b">>] = 171

Decimals == <<"0", "1", "2", "3", "4", "5", "6", "7", "8", "9">>

(* The id of the i-th entry of the input: its position among the entries   *)
(* of its variant, counted from 0, in decimal.                             *)
IdOf(i) ==
    <<Decimals[Cardinality({j \in 1..(i - 1) :
                              Input[j].variant = Input[i].variant}) + 1]>>

(* C29: limit_orders holds the limit orders of the input under "0", "1",   *)
(* ... by their position among the limit orders, amm_orders the AMMs       *)
(* likewise; model.orders has the keys of limit_orders and model.uniswaps  *)
(* those of amm_orders, and the wire entry under an id has the tokens,     *)
(* amounts or reserves, partial-fill flag and is_sell_order of the object  *)
(* stored under that id.                                                   *)
C29_PreparedAligned ==
    Prepared =>
        /\ DOMAIN Output.limit_orders =
                {IdOf(i) : i \in {j \in 1..Len(Input) : IsLimit(j)}}
        /\ DOMAIN Output.amm_orders =
                {IdOf(i) : i \in {j \in 1..Len(Input) : IsAmm(j)}}
        /\ \A i \in 1..Len(Input) :
                /\ IsLimit(i) => Output.limit_orders[IdOf(i)] = Input[i].order
                /\ IsAmm(i) => Output.amm_orders[IdOf(i)] = Input[i].order
        /\ DOMAIN Output.model.orders = DOMAIN Output.limit_orders
        /\ DOMAIN Output.model.uniswaps = DOMAIN Output.amm_orders
        /\ \A id \in DOMAIN Output.limit_orders :
                LET wire == Output.model.orders[id]
                    order == Output.limit_orders[id]
                IN  /\ Output.tokens[wire.sell_token] = order.sell_token
                    /\ Output.tokens[wire.buy_token] = order.buy_token
                    /\ wire.sell_amount = order.sell_amount
                    /\ wire.buy_amount = order.buy_amount
                    /\ wire.allow_partial_fill = order.partially_fillable
                    /\ wire.is_sell_order = (order.kind = "Sell")
        /\ \A id \in DOMAIN Output.amm_orders :
                LET wire == Output.model.uniswaps[id]
                    amm == Output.amm_orders[id]
                IN  /\ Output.tokens[wire.token1] = amm.tokens[1]
                    /\ Output.tokens[wire.token2] = amm.tokens[2]
                    /\ wire.balance1 = amm.reserves[1]
                    /\ wire.balance2 = amm.reserves[2]

(* An AMM before a limit order: the limit order is second in the input and *)
(* has the id "0", as has the AMM among the AMMs.                          *)
C29_Witness ==
    /\ Prepared
    /\ Len(Input) = 2 /\ IsAmm(1) /\ IsLimit(2)
    /\ Input[2].order.sell_token # Input[2].order.buy_token
    /\ Input[2].order.sell_amount # Input[2].order.buy_amount
    /\ Input[1].order.reserves[1] # Input[1].order.reserves[2]
    /\ Output.limit_orders[<<"0">>] = Input[2].order
    /\ Output.amm_orders[<<"0">>] = Input[1].order

(* What solve was given, what the solver answered and what was encoded. *)
Solved == AppliedTo("solve")

Given_liquidity == applied[1].arg.liquidity

Echoed == applied[1].arg.settled

Encoded == applied[1].result

(* The id prepare_model issued for the i-th entry of the liquidity. *)
IssuedId(i) ==
    <<Decimals[Cardinality({j \in 1..(i - 1) :
                Given_liquidity[j].variant = Given_liquidity[i].variant}) + 1]>>

(* C23: for every id that prepare_model issued for a limit order or an AMM *)
(* and that the solver echoes back, convert_settlement invokes the         *)
(* settlement handling of the liquidity object at that position of the     *)
(* input, no other object's, and hands it the echoed execution: for a      *)
(* limit order the executed amount of the side its kind names.             *)
C23_RoundTrip ==
    Solved =>
        \A i \in 1..Len(Given_liquidity) :
            LET object == Given_liquidity[i].order
                id == IssuedId(i)
            IN  /\ (Given_liquidity[i].variant = "Limit" /\ id \in DOMAIN Echoed.orders) =>
                        /\ id \in DOMAIN Encoded.limit
                        /\ Encoded.limit[id].settlement_handling =
                                object.settlement_handling
                        /\ object.kind = "Sell" =>
                                Encoded.limit[id].execution =
                                    Echoed.orders[id].exec_sell_amount
                        /\ object.kind = "Buy" =>
                                Encoded.limit[id].execution =
                                    Echoed.orders[id].exec_buy_amount
                /\ (Given_liquidity[i].variant = "Amm" /\ id \in DOMAIN Echoed.uniswaps) =>
                        /\ id \in DOMAIN Encoded.amm
                        /\ Encoded.amm[id].settlement_handling =
                                object.settlement_handling
                        /\ {Encoded.amm[id].execution.input[1],
                            Encoded.amm[id].execution.output[1]} =
                                {object.tokens[1], object.tokens[2]}

(* Two limit orders with different handlers and kinds, both echoed with    *)
(* different executed amounts: each handler got the amount of its order.   *)
C23_Witness ==
    /\ Solved
    /\ Len(Given_liquidity) = 2
    /\ Given_liquidity[1].variant = "Limit" /\ Given_liquidity[2].variant = "Limit"
    /\ Given_liquidity[1].order.settlement_handling = 2
    /\ Given_liquidity[2].order.settlement_handling = 1
    /\ Given_liquidity[1].order.kind = "Sell" /\ Given_liquidity[2].order.kind = "Buy"
    /\ DOMAIN Echoed.orders = {<<"0">>, <<"1">>}
    /\ Echoed.orders[<<"0">>] = [exec_sell_amount |-> 1, exec_buy_amount |-> 2]
    /\ Echoed.orders[<<"1">>] = [exec_sell_amount |-> 1, exec_buy_amount |-> 2]
    /\ Encoded.limit[<<"0">>] = [settlement_handling |-> 2, execution |-> 1]
    /\ Encoded.limit[<<"1">>] = [settlement_handling |-> 1, execution |-> 2]

C27_TimeLimitHonoured ==
    request.pc \in {"sending", "reading"} =>
        request.elapsed <= request.time_limit + TimeLimitSlack

(* simulate_settlements returned Ok with its vector of results. *)
Simulated ==
    /\ simulation.pc = "done"
    /\ simulation.returned[1].ok

Results == simulation.returned[1].events

(* C24: when simulate_settlements succeeds, its vector has one result for  *)
(* each settlement given, in the order given: the i-th result is the       *)
(* outcome of the call of the i-th settlement, for no settlements, for few *)
(* and for more than the batch size of 10.                                 *)
C24_OneResultEachInOrder ==
    Simulated =>
        /\ Len(Results) = Len(simulation.settlements)
        /\ \A i \in 1..Len(simulation.settlements) :
                /\ Results[i].ok <=> simulation.futures[i][1].ok
                /\ ~Results[i].ok =>
                        Results[i].context[9] = simulation.settlements[i].data

(* Eleven settlements, of which the second and the eleventh failed. *)
C24_Witness ==
    /\ Simulated
    /\ Len(simulation.settlements) = 11
    /\ Len(Results) = 11
    /\ {i \in 1..11 : ~Results[i].ok} = {2, 11}

(* C25: each settlement is simulated once and not again; a settlement      *)
(* whose call succeeds gives Ok(()), one whose call fails gives an Err     *)
(* whose context is the tenderly link, beginning with                      *)
(* https://dashboard.tenderly.co/ and made of the block number that was    *)
(* fetched, the network id and the from, to and data of that settlement.   *)
C25_OnceAndLinked ==
    /\ \A i \in 1..Len(simulation.calls) : simulation.calls[i] <= 1
    /\ Simulated =>
            \A i \in 1..Len(simulation.settlements) :
                /\ simulation.calls[i] = 1
                /\ simulation.futures[i][1].ok => Results[i] = Ok("()")
                /\ ~simulation.futures[i][1].ok =>
                        /\ ~Results[i].ok
                        /\ Results[i].context[1] = "https://dashboard.tenderly.co/"
                        /\ Results[i].context[3] = simulation.current_block[1].events
                        /\ Results[i].context[5] = simulation.settlements[i].from
                        /\ Results[i].context[7] = simulation.settlements[i].to
                        /\ Results[i].context[9] = simulation.settlements[i].data
                        /\ Results[i].context[11] = simulation.network_id

(* Of two settlements on network 4 at block 2 the second failed: its link  *)
(* names block 2, network 4 and the call data 2.                           *)
C25_Witness ==
    /\ Simulated
    /\ Len(simulation.settlements) = 2
    /\ simulation.network_id = "4"
    /\ simulation.current_block = <<Ok(2)>>
    /\ Results[1] = Ok("()")
    /\ ~Results[2].ok
    /\ Results[2].context[3] = 2
    /\ Results[2].context[9] = 2
    /\ Results[2].context[11] = "4"

(* C31: after append_events has processed a batch, no pool id that has got  *)
(* both its PoolRegistered and its TokensRegistered is left in             *)
(* pending_pools: it is in pools, out of pending_pools and indexed under   *)
(* each of its tokens.                                                     *)
C31_CompleteIsRegistered ==
    Appended =>
        /\ \A pool_id \in DOMAIN pending_pools :
                ~IsComplete(pending_pools[pool_id])
        /\ \A pool_id \in DOMAIN pools :
                \A token \in pools[pool_id].tokens : pool_id \in Bucket(token)

(* C38: in every state of the registry the keys of pools and the keys of   *)
(* pending_pools are disjoint, also when events for a pool id arrive after *)
(* its upgrade.                                                            *)
C38_PoolsAndPendingDisjoint == DOMAIN pools \cap DOMAIN pending_pools = {}

C39_Bounded ==
    Appended' =>
        /\ last_event_block(Self') >= last_event_block(Self)
        /\ last_event_block(Self') <= tip'

(* C39: over append_events calls whose events come with non-decreasing     *)
(* blocks, last_event_block never decreases and never exceeds the block of *)
(* the latest event appended.                                              *)
C39_LastEventBlockMonotone == [][C39_Bounded]_vars

(* An append_events raised last_event_block from 0 to 1, the block of the  *)
(* event that opened pool 2, while pool 1 of block 0 stays registered.     *)
C39_Witness ==
    /\ Appended /\ calls = 2 /\ tip = 1
    /\ call.ids = {2}
    /\ 1 \in DOMAIN pools /\ pools[1].block_created = 0
    /\ 2 \in DOMAIN pending_pools /\ pending_pools[2].block_created = 1
    /\ last_event_block(Self) = 1

C33_Emptied ==
    (call'.op = "store_replace_events" /\ call'.ok) =>
        /\ DOMAIN pools' \subseteq call'.ids
        /\ DOMAIN pending_pools' \subseteq call'.ids
        /\ \A pool_id \in DOMAIN pools \cup DOMAIN pending_pools :
                pool_id \notin call'.ids =>
                    pool_id \notin DOMAIN pools' \cup DOMAIN pending_pools'
        /\ \A pool_id \in DOMAIN pools' :
                pools'[pool_id].block_created = origin'.pools[pool_id]

(* C33: the replace_events of the event store deletes from block 0         *)
(* whatever its range: after it has returned Ok, pools and pending_pools   *)
(* hold only entries the supplied events created, and no pool from before  *)
(* the call is left, also none created before the start of the range.      *)
C33_StoreReplaceDeletesAll == [][C33_Emptied]_vars

(* A replace_events with a range from block 1 and no event for pool 1      *)
(* returned Ok and left no pool; the bucket of a token is what remains of  *)
(* the pool that was there.                                                *)
C33_Witness ==
    /\ call.op = "store_replace_events" /\ call.ok /\ call.from = 1
    /\ call.ids = {} /\ calls = 2
    /\ pools = EmptyMap /\ pending_pools = EmptyMap
    /\ \E token \in DOMAIN pools_by_token : pools_by_token[token] = {}

(* The events insert_events was given, and the place of the last one of a  *)
(* kind among them, 0 when there is none.                                  *)
Inserted == applied[1].arg

LastOf(kind) ==
    Max({i \in 1..Len(Inserted) : Inserted[i].kind = kind} \cup {0})

C32_LastWins(self) ==
    LET pool_registered == LastOf("PoolRegistered")
        tokens_registered == LastOf("TokensRegistered")
    IN  IF pool_registered > 0 /\ tokens_registered > 0
        THEN /\ DOMAIN self.pending_pools = {}
             /\ DOMAIN self.pools = {1}
             /\ self.pools[1].specialization =
                    Inserted[pool_registered].specialization
             /\ self.pools[1].tokens = Inserted[tokens_registered].tokens
             /\ self.pools[1].block_created = Inserted[1].block_number
        ELSE /\ DOMAIN self.pools = {}
             /\ DOMAIN self.pending_pools = {1}
             /\ self.pending_pools[1].block_created = Inserted[1].block_number
             /\ self.pending_pools[1].pool_registration =
                    IF pool_registered = 0 THEN <<>>
                    ELSE <<[pool_id |-> 1,
                            specialization |->
                                Inserted[pool_registered].specialization]>>
             /\ self.pending_pools[1].tokens_registration =
                    IF tokens_registered = 0 THEN <<>>
                    ELSE <<[pool_id |-> 1,
                            tokens |-> Inserted[tokens_registered].tokens]>>

(* C32: while a pool is pending, a later event of a kind replaces the      *)
(* registration of that kind and leaves the registration of the other kind *)
(* and block_created as they were: the builder, and the pool registered    *)
(* from it, carry the last PoolRegistered and the last TokensRegistered    *)
(* received and the block of the first event.                              *)
C32_LaterEventReplaces ==
    (AppliedTo("insert_events") /\ Inserted # <<>>) =>
        \A outcome \in applied[1].result : C32_LastWins(outcome.self)

(* PoolRegistered as General at block 0, TokensRegistered, PoolRegistered   *)
(* again as MinimalSwapInfo at block 1: the pool is MinimalSwapInfo, with   *)
(* the tokens and of block 0.                                              *)
C32_Witness ==
    /\ AppliedTo("insert_events")
    /\ Len(Inserted) = 3
    /\ Inserted[1] = [kind |-> "PoolRegistered", block_number |-> 0,
                      pool_id |-> 1, specialization |-> General]
    /\ Inserted[2].kind = "TokensRegistered" /\ Inserted[2].tokens = {1, 2}
    /\ Inserted[3] = [kind |-> "PoolRegistered", block_number |-> 1,
                      pool_id |-> 1, specialization |-> MinimalSwapInfo]
    /\ \E outcome \in applied[1].result :
            /\ outcome.ok
            /\ outcome.self.pools[1] =
                    [pool_id |-> 1, specialization |-> MinimalSwapInfo,
                     tokens |-> {1, 2}, block_created |-> 0]

(* The join! of lines 32-35 is through: the whole queue has been executed  *)
(* and the block number fetched.                                           *)
Joined ==
    /\ simulation.pc = "joined"
    /\ simulation.executed = Len(simulation.settlements)
    /\ simulation.current_block # <<>>

(* C40: when the batched execution, ten calls to a flush, and the fetch of *)
(* the block number have both completed, every queued call has its result, *)
(* for no candidates, fewer than ten, ten, and more than ten: reading a    *)
(* result without waiting never fails.                                     *)
C40_AllResolvedAfterJoin ==
    Joined =>
        /\ Len(simulation.futures) = Len(simulation.settlements)
        /\ \A i \in 1..Len(simulation.futures) : simulation.futures[i] # <<>>

(* Eleven candidates, the join! through: the eleventh, of the second       *)
(* flush, has its result.                                                  *)
C40_Witness ==
    /\ Joined
    /\ Len(simulation.settlements) = 11
    /\ simulation.futures[11] = <<Err("execution reverted")>>
    /\ simulation.futures[10] = <<Ok("bytes")>>
    /\ simulation.calls[11] = 1

Rejections == {"PastValidTo", "DuplicatedOrder", "InvalidSignature"}

C35_Untouched(t) ==
    /\ (pc[t] \in AddPcs /\ pc'[t] # pc[t] /\ ret'[t].kind # "Ok") =>
            orders' = orders
    /\ (pc[t] \in AddPcs /\ ret'[t].kind \in Rejections) =>
            /\ pc'[t] = "idle"
            /\ orders' = orders
            /\ writer' # t

(* C35: a rejected add_order leaves the book unchanged: no step of the     *)
(* call changes the stored orders, whichever of PastValidTo,               *)
(* DuplicatedOrder or InvalidSignature it returns, and the rejection ends  *)
(* the call, without another attempt.                                      *)
C35_RejectedAddChangesNothing == [][\A t \in Tasks : C35_Untouched(t)]_vars

(* Task 1 was told InvalidSignature and task 2 DuplicatedOrder while the   *)
(* book holds its one order.                                               *)
C35_Witness ==
    /\ ret[1].kind = "InvalidSignature" /\ pc[1] = "idle"
    /\ ret[2].kind = "DuplicatedOrder" /\ pc[2] = "idle"
    /\ Len(orders) = 1 /\ writer = NoTask

(* C36: add_order never inserts an order when the clock has reached its    *)
(* valid_to, also when the call waited for the write lock between reading  *)
(* the clock and inserting.                                                *)
C36_NeverInsertedExpired ==
    [][\A t \in Tasks :
        (pc[t] = "add_push" /\ ret'[t].kind = "Ok") => arg[t].valid_to > clock]_vars

(* C37: no two orders stored in the book at the same time have the same    *)
(* uid, also when two payloads differ in their signature bytes only and    *)
(* recover the same owner.                                                 *)
C37_UniqueUids ==
    writer = NoTask =>
        \A i \in 1..Len(orders), j \in 1..Len(orders) :
            i # j => orders[i].uid # orders[j].uid

Dropped(t) == ret[t].kind # "Cancelled" /\ ret'[t].kind = "Cancelled"

C34_Consistent(t) ==
    /\ Dropped(t) =>
            /\ orders' = orders /\ committed' = committed
            /\ writer' = writer /\ readers' = readers
            /\ writer' # t /\ t \notin readers'
            /\ pc'[t] = "idle"
            /\ \A s \in Tasks \ {t} : pc'[s] = pc[s] /\ ret'[s] = ret[s]
    /\ writer' = NoTask => orders' = committed'
    /\ (pc[t] = "get_clone" /\ ret'[t].kind = "Orders") =>
            ret'[t].snap = committed

(* C34: cancelling a task at a suspension point of add_order,              *)
(* remove_order, get_orders or run_maintenance leaves the order book       *)
(* consistent: the cancelled call holds no guard and has changed nothing   *)
(* (a write is applied completely or not at all), the book with no writer  *)
(* is the book as the last completed write left it, and that is all a      *)
(* get_orders of another task observes.                                    *)
C34_CancelKeepsBookConsistent == [][\A t \in Tasks : C34_Consistent(t)]_vars

(* Task 1 was cancelled while it waited for the lock that task 2 holds in  *)
(* the middle of a swap_remove.                                            *)
C34_Witness ==
    /\ ret[1].kind = "Cancelled" /\ pc[1] = "idle"
    /\ pc[2] = "remove_truncate" /\ writer = 2
    /\ orders # committed

====
